---- MODULE Spec2Model ----
(***************************************************************************)
(* State-machine model of the scorecard pipeline: process_scorecard and    *)
(* the three graph nodes (repo_loader, scoring_agent, commit_agent) with   *)
(* the agents they call.                                                   *)
(*                                                                         *)
(* Conventions.                                                            *)
(*   - A Python string is a sequence of text tokens; concatenation and     *)
(*     f-string formatting are \o.  A token is never split.                *)
(*   - An Optional value is a sequence of length 0 (None / key absent) or  *)
(*     1 (the value).                                                      *)
(*   - A JSON number is [t |-> "int", v |-> n]; [t |-> "nan"] is the float *)
(*     NaN json.loads accepts; [t |-> "str"] is a non-numeric value.       *)
(***************************************************************************)
EXTENDS Integers, Sequences, FiniteSets, TLC

(***************************************************************************)
(* Bounds of the model.                                                    *)
(***************************************************************************)
\* number of distinct clock readings datetime.now() can give
MaxTime == 2
\* number of writes another writer makes to component-score.json
MaxOtherWrites == 2

None == << >>
Some(v) == << v >>
IsNone(o) == Len(o) = 0
Val(o) == o[1]

RECURSIVE SumSeq(_)
SumSeq(s) == IF Len(s) = 0 THEN 0 ELSE Head(s) + SumSeq(Tail(s))

RECURSIVE MapToScore(_)
MapToScore(s) == IF Len(s) = 0 THEN << >>
                 ELSE << Head(s).scorePercent >> \o MapToScore(Tail(s))

(***************************************************************************)
(* The rubric: ScoringAgent.scorecard_structure.                           *)
(***************************************************************************)
Choice(label, score) == [label |-> label, score |-> score]

RubricEntry(id, title, how, choices) ==
    [id |-> id, title |-> title, howToScore |-> how, scoreChoices |-> choices]

AreaCodeQuality ==
    [id |-> 1001, title |-> "Code Quality", entries |-> <<
       RubricEntry(1, "Documentation",
          "Technical documentation should be present and accessible.",
          << Choice("Well documented with comprehensive README and docs", 100),
             Choice("Basic documentation present", 80),
             Choice("Minimal documentation", 40),
             Choice("No documentation", 0) >>),
       RubricEntry(2, "Static Code Analysis",
          "Code should be analyzed for quality and security issues.",
          << Choice("Comprehensive static analysis with automated checks", 100),
             Choice("Basic static analysis implemented", 70),
             Choice("Manual code reviews only", 40),
             Choice("No static analysis", 0) >>),
       RubricEntry(3, "Code Structure",
          "Code should follow best practices and be well organized.",
          << Choice("Excellent structure with design patterns", 100),
             Choice("Good structure and organization", 80),
             Choice("Basic structure present", 60),
             Choice("Poor code organization", 20) >>) >>]

AreaOperations ==
    [id |-> 1002, title |-> "Operations", entries |-> <<
       RubricEntry(4, "CI/CD Pipeline",
          "Automated build and deployment pipeline should be in place.",
          << Choice("Full CI/CD with automated testing and deployment", 100),
             Choice("CI/CD pipeline configured", 90),
             Choice("Basic CI only", 50),
             Choice("Manual deployment", 0) >>),
       RubricEntry(5, "Dependency Management",
          "Dependencies should be properly managed and up to date.",
          << Choice("Automated dependency management with security scanning", 100),
             Choice("Regular dependency updates", 80),
             Choice("Basic dependency files present", 60),
             Choice("No dependency management", 0) >>),
       RubricEntry(6, "Configuration Management",
          "Application configuration should be externalized and secure.",
          << Choice("Environment-based config with secrets management", 100),
             Choice("Basic environment configuration", 70),
             Choice("Hardcoded configuration", 30),
             Choice("No configuration management", 0) >>) >>]

AreaSecurity ==
    [id |-> 1003, title |-> "Security", entries |-> <<
       RubricEntry(7, "Security Practices",
          "Security best practices should be implemented.",
          << Choice("Comprehensive security measures implemented", 100),
             Choice("Basic security practices in place", 70),
             Choice("Minimal security considerations", 40),
             Choice("No security measures", 0) >>),
       RubricEntry(8, "Secrets Management",
          "Secrets and credentials should be properly managed.",
          << Choice("Secure secrets management with encryption", 100),
             Choice("Environment variables for secrets", 80),
             Choice("Some hardcoded secrets", 30),
             Choice("Exposed secrets in code", 0) >>) >>]

AreaTesting ==
    [id |-> 1004, title |-> "Testing", entries |-> <<
       RubricEntry(9, "Test Coverage",
          "Automated tests should cover critical functionality.",
          << Choice("Comprehensive test suite with high coverage", 100),
             Choice("Good test coverage", 80),
             Choice("Basic tests present", 50),
             Choice("No automated tests", 0) >>),
       RubricEntry(10, "Test Quality",
          "Tests should be well-written and maintainable.",
          << Choice("Excellent test quality and organization", 100),
             Choice("Good test structure", 80),
             Choice("Basic test implementation", 60),
             Choice("Poor test quality", 20) >>) >>]

scorecard_structure ==
    [areas |-> << AreaCodeQuality, AreaOperations, AreaSecurity, AreaTesting >>]

\* str(entry['id']) for the ids of the rubric
IdStr(n) == << "1", "2", "3", "4", "5", "6", "7", "8", "9", "10" >>[n]

(***************************************************************************)
(* Scores and entry values of a parsed model response.                     *)
(***************************************************************************)
IntScore(n) == [t |-> "int", v |-> n]
NaNScore == [t |-> "nan", v |-> 0]
StrScore == [t |-> "str", v |-> 0]

Text(s) == [t |-> "str", v |-> s]
NonText == [t |-> "other", v |-> "null"]

\* a JSON object {"score": s, "details": d}
EntryObj(s, d) ==
    [isDict |-> TRUE, hasScore |-> TRUE, score |-> s, hasDetails |-> TRUE, details |-> d]

\* isinstance(x, (int, float))
IsNumber(s) == s.t \in {"int", "nan"}

(***************************************************************************)
(* ScoringAgent._get_score_success                                         *)
(***************************************************************************)
\* thresholds that are open below
Mut_get_score_success_open(score) ==
    IF score > 90 THEN "excellent"
    ELSE IF score > 70 THEN "good"
    ELSE IF score > 50 THEN "warning"
    ELSE "error"

_get_score_success(score) ==
    IF score >= 90 THEN "excellent"
    ELSE IF score >= 70 THEN "good"
    ELSE IF score >= 50 THEN "warning"
    ELSE "error"

\* a division that rounds to the nearest integer
MutIntDivRounds(a, n) == (2 * a + n) \div (2 * n)

\* int(a / n) for integers a and n > 0: true division, then truncation toward zero
IntDiv(a, n) == IF a >= 0 THEN a \div n ELSE -((-a) \div n)

(***************************************************************************)
(* ScoringAgent._build_oriflame_scorecard                                  *)
(***************************************************************************)
DefaultEntry == EntryObj(IntScore(50), Text("No analysis available"))

\* entries_scores.get(entry_id, {'score': 50, 'details': 'No analysis available'})
MutEntryScoreDataNoDefault(entries_scores, entry) ==
    IF IdStr(entry.id) \in DOMAIN entries_scores
    THEN entries_scores[IdStr(entry.id)]
    ELSE EntryObj(IntScore(0), Text(""))

EntryScoreData(entries_scores, entry) ==
    IF IdStr(entry.id) \in DOMAIN entries_scores
    THEN entries_scores[IdStr(entry.id)]
    ELSE DefaultEntry

\* the record appended to area_entries for one rubric entry
BuildEntry(entries_scores, entry) ==
    LET d == EntryScoreData(entries_scores, entry) IN
    [id |-> entry.id,
     title |-> entry.title,
     scorePercent |-> d.score.v,
     scoreSuccess |-> _get_score_success(d.score.v),
     howToScore |-> entry.howToScore,
     scoreChoices |-> entry.scoreChoices,
     details |-> d.details]

\* the record appended to area_scores for one area
BuildArea(entries_scores, area) ==
    LET area_entries ==
            [i \in 1..Len(area.entries) |-> BuildEntry(entries_scores, area.entries[i])]
        area_total_score == SumSeq(MapToScore(area_entries))
        area_score_percent ==
            IF Len(area.entries) > 0
            THEN IntDiv(area_total_score, Len(area.entries)) ELSE 0
    IN [id |-> area.id,
        title |-> area.title,
        scorePercent |-> area_score_percent,
        scoreSuccess |-> _get_score_success(area_score_percent),
        scoreEntries |-> area_entries]

\* the arithmetic of the build raises: a looked-up score that is NaN makes
\* int(nan / n) raise ValueError
BuildRaises(entries_scores) ==
    \E a \in 1..Len(scorecard_structure.areas) :
      \E i \in 1..Len(scorecard_structure.areas[a].entries) :
        EntryScoreData(entries_scores, scorecard_structure.areas[a].entries[i]).score.t # "int"

_build_oriflame_scorecard(entries_scores, repo_name, now) ==
    LET areas == scorecard_structure.areas
        area_scores == [a \in 1..Len(areas) |-> BuildArea(entries_scores, areas[a])]
        overall_score ==
            IF Len(area_scores) > 0
            THEN IntDiv(SumSeq(MapToScore(area_scores)), Len(area_scores)) ELSE 0
    IN [entityRef |-> [kind |-> "component", name |-> repo_name],
        generatedDateTimeUtc |-> now,
        scorePercent |-> overall_score,
        scoreSuccess |-> _get_score_success(overall_score),
        areaScores |-> area_scores]

(***************************************************************************)
(* Parsed model responses (the value json.loads returns).                  *)
(***************************************************************************)
NoKeys == [k \in {} |-> DefaultEntry]

\* a JSON object whose "entries" member is the object e
EntriesResponse(e) ==
    [isDict |-> TRUE, hasEntries |-> TRUE, entriesIsDict |-> TRUE, entries |-> e]

\* the example of the prompt: all 10 ids present
FullEntries ==
    [k \in {"1", "2", "3", "4", "5", "6", "7", "8", "9", "10"} |->
        CASE k = "1" -> EntryObj(IntScore(80), Text("Good README"))
          [] k = "2" -> EntryObj(IntScore(70), Text("Basic linting"))
          [] k = "3" -> EntryObj(IntScore(85), Text("Well-organized"))
          [] k = "4" -> EntryObj(IntScore(90), Text("GitHub Actions"))
          [] k = "5" -> EntryObj(IntScore(75), Text("Dependencies maintained"))
          [] k = "6" -> EntryObj(IntScore(60), Text("Basic environment configuration"))
          [] k = "7" -> EntryObj(IntScore(65), Text("Some security practices"))
          [] k = "8" -> EntryObj(IntScore(80), Text("No hardcoded secrets"))
          [] k = "9" -> EntryObj(IntScore(50), Text("Limited test coverage"))
          [] OTHER   -> EntryObj(IntScore(60), Text("Basic test implementation"))]

\* the entries of e whose keys are in keys
Restrict(e, keys) == [k \in (DOMAIN e) \cap keys |-> e[k]]

\* valid for the code: parse, pass _validate_ai_response
ValidResponses ==
    { EntriesResponse(FullEntries),
      \* 3 of the 10 ids missing, and a details value that is not a string
      EntriesResponse([k \in {"1", "2", "3", "4", "5", "6", "7"} |->
          IF k = "7" THEN EntryObj(IntScore(95), NonText) ELSE FullEntries[k]]),
      \* a score that is NaN: numeric for isinstance, the build's int() raises
      EntriesResponse([k \in {"2"} |-> EntryObj(NaNScore, Text("nan"))]) }

\* parse, but fail _validate_ai_response
InvalidResponses ==
    { [isDict |-> FALSE, hasEntries |-> FALSE, entriesIsDict |-> FALSE, entries |-> NoKeys],
      [isDict |-> TRUE, hasEntries |-> FALSE, entriesIsDict |-> FALSE, entries |-> NoKeys],
      [isDict |-> TRUE, hasEntries |-> TRUE, entriesIsDict |-> FALSE, entries |-> NoKeys],
      EntriesResponse(NoKeys),
      EntriesResponse([k \in {"1"} |->
          [isDict |-> FALSE, hasScore |-> FALSE, score |-> StrScore,
           hasDetails |-> FALSE, details |-> NonText]]),
      EntriesResponse([k \in {"1", "2"} |->
          IF k = "1" THEN EntryObj(IntScore(80), Text("ok"))
          ELSE [isDict |-> TRUE, hasScore |-> FALSE, score |-> StrScore,
                hasDetails |-> TRUE, details |-> Text("no score")]]),
      EntriesResponse([k \in {"1"} |->
          [isDict |-> TRUE, hasScore |-> TRUE, score |-> IntScore(80),
           hasDetails |-> FALSE, details |-> NonText]]),
      EntriesResponse([k \in {"1"} |-> EntryObj(StrScore, Text("score is text"))]) }

ParsedResponses == ValidResponses \cup InvalidResponses

(***************************************************************************)
(* ScoringAgent._validate_ai_response                                      *)
(***************************************************************************)
_validate_ai_response(response_data) ==
    /\ response_data.isDict
    \* entries = response_data.get('entries', {}): an absent key gives {}
    /\ (response_data.hasEntries => response_data.entriesIsDict)
    /\ response_data.hasEntries
    /\ DOMAIN response_data.entries # {}
    /\ \A k \in DOMAIN response_data.entries :
          /\ response_data.entries[k].isDict
          /\ response_data.entries[k].hasScore
          /\ response_data.entries[k].hasDetails
          /\ IsNumber(response_data.entries[k].score)

(***************************************************************************)
(* Repository files and RepoLoaderAgent._organize_files_by_type            *)
(***************************************************************************)
File(path, name, ext) == [path |-> path, name |-> name, extension |-> ext]

F_readme  == File("README.md", "README.md", ".md")
F_main    == File("src/main.py", "main.py", ".py")
F_package == File("package.json", "package.json", ".json")
F_gradle  == File("build.gradle", "build.gradle", ".gradle")
F_jenkins == File("k8s/Jenkinsfile", "Jenkinsfile", "")
F_license == File("LICENSE", "LICENSE", "")
\* files that more than one rule of the classification matches, and one
\* that a name rule alone matches
OverlapFiles ==
    << File("setup.py", "setup.py", ".py"),
       File("requirements.txt", "requirements.txt", ".txt"),
       File(".github/workflows/ci.yml", "ci.yml", ".yml"),
       File("k8s/jenkins.md", "jenkins.md", ".md"),
       File("Dockerfile", "Dockerfile", "") >>

\* str.lower() on the names and paths of the files above
Lower(s) ==
    CASE s = "README.md" -> "readme.md"
      [] s = "k8s/Jenkinsfile" -> "k8s/jenkinsfile"
      [] s = "Jenkinsfile" -> "jenkinsfile"
      [] s = "LICENSE" -> "license"
      [] s = "Dockerfile" -> "dockerfile"
      [] OTHER -> s

\* 'readme' in file_name, over the lower-cased names above
ContainsReadme(file_name) == file_name \in {"readme.md"}
\* '.github/workflows' in file_path or 'jenkins' in file_path or
\* file_name.startswith('.gitlab-ci'), over the lower-cased paths above
IsCiPath(file_path, file_name) ==
    file_path \in {"k8s/jenkinsfile", "k8s/jenkins.md", ".github/workflows/ci.yml"}

\* a chain that tests the build filenames before the extensions
MutCategoryBuildFirst(file_data) ==
    IF Lower(file_data.name) \in {"package.json", "requirements.txt", "pom.xml",
                                  "build.gradle", "setup.py", "cargo.toml"}
    THEN "build_files"
    ELSE IF file_data.extension \in {".py", ".js", ".ts", ".jsx", ".tsx", ".java", ".cpp",
                                     ".c", ".cs", ".go", ".rb", ".php", ".swift", ".kt",
                                     ".rs", ".scala"}
    THEN "source_code"
    ELSE IF \/ file_data.extension \in {".json", ".yml", ".yaml", ".xml", ".toml", ".ini", ".conf"}
            \/ Lower(file_data.name) \in {"dockerfile", "makefile"}
    THEN "config_files"
    ELSE IF file_data.extension \in {".md", ".txt", ".rst"}
            \/ ContainsReadme(Lower(file_data.name))
    THEN "documentation"
    ELSE IF IsCiPath(Lower(file_data.path), Lower(file_data.name))
    THEN "ci_cd"
    ELSE "other"

Category(file_data) ==
    LET file_path == Lower(file_data.path)
        file_name == Lower(file_data.name)
        extension == file_data.extension
    IN IF extension \in {".py", ".js", ".ts", ".jsx", ".tsx", ".java", ".cpp", ".c",
                         ".cs", ".go", ".rb", ".php", ".swift", ".kt", ".rs", ".scala"}
       THEN "source_code"
       ELSE IF \/ extension \in {".json", ".yml", ".yaml", ".xml", ".toml", ".ini", ".conf"}
               \/ file_name \in {"dockerfile", "makefile"}
       THEN "config_files"
       ELSE IF extension \in {".md", ".txt", ".rst"} \/ ContainsReadme(file_name)
       THEN "documentation"
       ELSE IF file_name \in {"package.json", "requirements.txt", "pom.xml",
                              "build.gradle", "setup.py", "cargo.toml"}
       THEN "build_files"
       ELSE IF IsCiPath(file_path, file_name)
       THEN "ci_cd"
       ELSE "other"

Categories ==
    {"source_code", "config_files", "documentation", "build_files", "ci_cd", "other"}

RECURSIVE FilterCategory(_, _)
FilterCategory(files_data, c) ==
    IF Len(files_data) = 0 THEN << >>
    ELSE (IF Category(Head(files_data)) = c THEN << Head(files_data) >> ELSE << >>)
         \o FilterCategory(Tail(files_data), c)

\* a classification whose build-file rule is tested on its own
MutOrganizeIndependentRules(files_data) ==
    [c \in Categories |->
        IF c = "build_files"
        THEN SelectSeq(files_data, LAMBDA f :
                 f.name \in {"package.json", "requirements.txt", "pom.xml",
                             "build.gradle", "setup.py", "cargo.toml"})
        ELSE FilterCategory(files_data, c)]

_organize_files_by_type(files_data) ==
    [c \in Categories |-> FilterCategory(files_data, c)]

\* what the traversal of the repository can yield (decoded relevant files)
Repos ==
    { << >>,
      << F_readme >>,
      << F_readme, F_main, F_package, F_gradle, F_jenkins, F_license >> }

(***************************************************************************)
(* ScoringAgent._create_basic_scorecard                                    *)
(***************************************************************************)
\* d.get(k, default)
Get(d, k, default) == IF k \in DOMAIN d THEN d[k] ELSE default

\* repo_data.get('repo_metadata', {}).get('name', 'unknown-component')
RepoName(repo_data) ==
    Get(Get(repo_data, "repo_metadata", [k \in {} |-> 0]), "name", << "unknown-component" >>)

\* a test of the key, not of the list under it
MutHasFilesKeyPresent(repo_data, c) ==
    c \in DOMAIN Get(repo_data, "organized_files", [k \in {} |-> 0])

\* organized_files.get(c) is truthy, organized_files being
\* repo_data.get('organized_files', {})
HasFiles(repo_data, c) ==
    Len(Get(Get(repo_data, "organized_files", [k \in {} |-> 0]), c, << >>)) > 0

BasicScores(repo_data) ==
    [k \in {"1", "2", "3", "4", "5", "6", "7", "8", "9", "10"} |->
        CASE k = "1" -> EntryObj(IntScore(IF HasFiles(repo_data, "documentation") THEN 80 ELSE 20),
                                 Text("Documentation analysis based on file presence"))
          [] k = "2" -> EntryObj(IntScore(60), Text("Basic static analysis assessment"))
          [] k = "3" -> EntryObj(IntScore(IF HasFiles(repo_data, "source_code") THEN 70 ELSE 30),
                                 Text("Code structure evaluation"))
          [] k = "4" -> EntryObj(IntScore(IF HasFiles(repo_data, "ci_cd") THEN 80 ELSE 30),
                                 Text("CI/CD pipeline assessment"))
          [] k = "5" -> EntryObj(IntScore(IF HasFiles(repo_data, "build_files") THEN 70 ELSE 40),
                                 Text("Dependency management evaluation"))
          [] k = "6" -> EntryObj(IntScore(IF HasFiles(repo_data, "config_files") THEN 60 ELSE 30),
                                 Text("Configuration management assessment"))
          [] k = "7" -> EntryObj(IntScore(55), Text("Basic security practices evaluation"))
          [] k = "8" -> EntryObj(IntScore(70), Text("Secrets management assessment"))
          [] k = "9" -> EntryObj(IntScore(40), Text("Test coverage evaluation"))
          [] OTHER   -> EntryObj(IntScore(50), Text("Test quality assessment"))]

_create_basic_scorecard(repo_data, now) ==
    _build_oriflame_scorecard(BasicScores(repo_data), RepoName(repo_data), now)

\* a fallback that indexes the bundle: KeyError when a key is absent
MutFallbackRaisesOnMissingKey(repo_data) ==
    \/ "repo_metadata" \notin DOMAIN repo_data
    \/ "name" \notin DOMAIN repo_data.repo_metadata
    \/ "organized_files" \notin DOMAIN repo_data
    \/ \E c \in Categories : c \notin DOMAIN repo_data.organized_files

\* _create_basic_scorecard raises: dict.get raises for no key, the table
\* holds integers, so only the arithmetic of the build is left
FallbackRaises(repo_data) == BuildRaises(BasicScores(repo_data))

\* what a call of _create_basic_scorecard gives: the scorecard, or nothing
\* when it raised
FallbackCall(repo_data, now) ==
    IF FallbackRaises(repo_data) THEN None ELSE Some(_create_basic_scorecard(repo_data, now))

(***************************************************************************)
(* RepoLoaderAgent.parse_github_url and load_repository                    *)
(***************************************************************************)
\* A URL is given by whether its text is empty and by path_parts, the
\* result of parsed.path.strip('/').split('/'); a path segment is a string.
EmptyUrl == [empty |-> TRUE, parts |-> << << >> >>]
OneSegmentUrl == [empty |-> FALSE, parts |-> << << "acme" >> >>]
TwoSegmentUrl == [empty |-> FALSE, parts |-> << << "acme" >>, << "widget", ".git" >> >>]
Urls == {EmptyUrl, OneSegmentUrl, TwoSegmentUrl}

\* str.replace('.git', ''): every occurrence is removed
RECURSIVE RemoveDotGit(_)
RemoveDotGit(seg) ==
    IF Len(seg) = 0 THEN << >>
    ELSE (IF Head(seg) = ".git" THEN << >> ELSE << Head(seg) >>) \o RemoveDotGit(Tail(seg))

parse_github_url(repo_url) ==
    IF Len(repo_url.parts) >= 2
    THEN [owner |-> Some(repo_url.parts[1]), repo |-> Some(RemoveDotGit(repo_url.parts[2]))]
    ELSE [owner |-> None, repo |-> None]

\* Python's {}
EmptyDict == [k \in {} |-> 0]
\* not d, for an Optional dict
NotDict(o) == IsNone(o) \/ DOMAIN Val(o) = {}
\* not s, for an Optional string
NotStr(o) == IsNone(o) \/ Len(Val(o)) = 0

\* what the network gives one load: the metadata fetch answers, the language
\* fetch answers, the content listing is well-formed, the decoded files.
\* Every answer is possible with and without GITHUB_TOKEN (without it the
\* loader sends its requests unauthenticated).
\* listing "os_error": a statement of load_repository's try block that
\* touches the operating system (the print before the traversal) raises an
\* OSError; the text of the exception is the operating system's.
LoaderNets ==
    [meta : BOOLEAN, langs : BOOLEAN, listing : {"ok", "malformed", "os_error"},
     files : Repos, undecoded : {{}}]

\* a traversal that gives up when the content of a file cannot be fetched
MutTraverseStopsOnDecodeFailure(files, undecoded) ==
    IF \E i \in 1..Len(files) : files[i].path \in undecoded THEN << >> ELSE files

\* traverse_repository: the relevant files listed, in order, without those
\* whose content fetch gave nothing (get_file_content returned None)
RECURSIVE traverse_repository(_, _)
traverse_repository(files, undecoded) ==
    IF Len(files) = 0 THEN << >>
    ELSE (IF Head(files).path \in undecoded THEN << >> ELSE << Head(files) >>)
         \o traverse_repository(Tail(files), undecoded)

\* the bundle load_repository returns for the decoded files files_data
RepoData(owner, repo, languages, files_data) ==
    [repo_metadata |-> [name |-> repo],
     languages |-> languages,
     files_data |-> files_data,
     organized_files |-> _organize_files_by_type(files_data),
     total_files |-> Len(files_data),
     owner |-> owner,
     repo_name |-> repo]

load_repository(repo_url, net) ==
    LET p == parse_github_url(repo_url) IN
    IF NotStr(p.owner) \/ NotStr(p.repo)
    THEN [repo_data |-> EmptyDict, status |-> << "Invalid GitHub repository URL" >>,
          fetches |-> << >>]
    ELSE IF ~net.meta
    THEN [repo_data |-> EmptyDict, status |-> << "Failed to fetch repository metadata" >>,
          fetches |-> << "metadata" >>]
    ELSE IF net.listing = "malformed"
    \* an item of the listing without 'path': KeyError, caught by load_repository
    THEN [repo_data |-> EmptyDict, status |-> << "Error loading repository: ", "'path'" >>,
          fetches |-> << "metadata", "languages", "contents" >>]
    ELSE IF net.listing = "os_error"
    \* error_msg = f"Error loading repository: {str(e)}"
    THEN [repo_data |-> EmptyDict,
          status |-> << "Error loading repository: ",
                        "[WinError 0] The operation completed successfully" >>,
          fetches |-> << "metadata", "languages" >>]
    ELSE IF Len(traverse_repository(net.files, net.undecoded)) = 0
    THEN [repo_data |-> EmptyDict, status |-> << "No relevant files found in repository" >>,
          fetches |-> << "metadata", "languages", "contents" >>]
    ELSE [repo_data |->
             RepoData(Val(p.owner), Val(p.repo),
                      IF net.langs THEN << "Python" >> ELSE << >>,
                      traverse_repository(net.files, net.undecoded)),
          status |-> << "Repository loaded successfully" >>,
          fetches |-> << "metadata", "languages", "contents" >>]

(***************************************************************************)
(* The pipeline state (ScorecardAgentState) and the result of              *)
(* process_scorecard.                                                      *)
(***************************************************************************)
\* the record before process_scorecard has built initial_state
NoState ==
    [repo_url |-> EmptyUrl, repo_data |-> None, scorecard_json |-> None,
     commit_result |-> None, commit_sha |-> None,
     processing_status |-> "unset", errors |-> << >>]

initial_state(url) ==
    [repo_url |-> url, repo_data |-> None, scorecard_json |-> None,
     commit_result |-> None, commit_sha |-> None,
     processing_status |-> "initialized", errors |-> << >>]

\* a failure that records no error string
MutFailedNoAppend(st, msg) ==
    [st EXCEPT !.processing_status = "failed"]

\* a failure that replaces the error list by the new message
MutFailedReplaces(st, msg) ==
    [st EXCEPT !.processing_status = "failed", !.errors = << msg >>]

\* {**state, "processing_status": "failed", "errors": state.get("errors", []) + [msg]}
Failed(st, msg) ==
    [st EXCEPT !.processing_status = "failed", !.errors = Append(st.errors, msg)]

\* "successfully" in status: the tokens that contain the word
ContainsSuccessfully(status) ==
    \E i \in 1..Len(status) :
        status[i] \in {"Repository loaded successfully",
                       "[WinError 0] The operation completed successfully"}

(***************************************************************************)
(* graph.py: check_success and the conditional edges                       *)
(***************************************************************************)
\* a router that looks at the status only
MutCheckSuccessIgnoresFailure(st) ==
    IF st.processing_status \in {"repo_loaded", "failed"} THEN "scoring_agent"
    ELSE IF st.processing_status = "scoring_complete" THEN "commit_agent"
    ELSE "END"

\* a router that takes no account of the error list
MutCheckSuccessStatusOnly(st) ==
    LET status == IF "processing_status" \in DOMAIN st THEN st.processing_status ELSE ""
    IN IF status = "failed" THEN "END"
       ELSE IF status = "repo_loaded" THEN "scoring_agent"
       ELSE IF status = "scoring_complete" THEN "commit_agent"
       ELSE "END"

\* a router that ends the run once a scorecard is there
MutCheckSuccessStopsAfterScoring(st) ==
    LET status == IF "processing_status" \in DOMAIN st THEN st.processing_status ELSE ""
        errors == IF "errors" \in DOMAIN st THEN st.errors ELSE << >>
    IN IF status = "failed" \/ Len(errors) > 0 THEN "END"
       ELSE IF status = "repo_loaded" THEN "scoring_agent"
       ELSE "END"

check_success(st) ==
    \* state.get("processing_status", ""), state.get("errors")
    LET status == IF "processing_status" \in DOMAIN st THEN st.processing_status ELSE ""
        errors == IF "errors" \in DOMAIN st THEN st.errors ELSE << >>
    IN IF status = "failed" \/ Len(errors) > 0 THEN "END"
       \* routing_map.get(status, "END")
       ELSE IF status = "repo_loaded" THEN "scoring_agent"
       ELSE IF status = "scoring_complete" THEN "commit_agent"
       ELSE "END"

\* the targets add_conditional_edges declares for each node
EdgeTargets(node) ==
    CASE node = "repo_loader" -> {"scoring_agent", "END"}
      [] node = "scoring_agent" -> {"commit_agent", "END"}
      [] node = "commit_agent" -> {"END"}

\* where the graph goes after node returned st
Route(node, st) ==
    IF check_success(st) \in EdgeTargets(node) THEN check_success(st) ELSE "invalid_route"

(***************************************************************************)
(* graph.py: repo_loader_node                                              *)
(***************************************************************************)
repo_loader_node(st, net) ==
    IF st.repo_url.empty
    THEN Failed(st, << "No repository URL provided" >>)
    ELSE LET r == load_repository(st.repo_url, net) IN
         IF ContainsSuccessfully(r.status)
         THEN [st EXCEPT !.repo_data = Some(r.repo_data), !.processing_status = "repo_loaded"]
         ELSE Failed(st, r.status)

(***************************************************************************)
(* ScoringAgent.analyze_repository: one iteration of the retry loop        *)
(***************************************************************************)
max_retries == 3

\* what one call of the model gives, after cleanup and parsing
ModelOutcomes ==
    [kind : {"raise", "empty", "blank", "garbage"}, parsed : {EntriesResponse(NoKeys)}]
    \cup [kind : {"json"}, parsed : ParsedResponses]

\* how the loop iteration classifies the outcome
Classify(out) ==
    IF out.kind # "json" THEN out.kind
    ELSE IF ~_validate_ai_response(out.parsed) THEN "invalid"
    ELSE IF BuildRaises(out.parsed.entries) THEN "valid_build_raises"
    ELSE "valid"

\* a loop that gives up with no scorecard after the last failed attempt
MutAnalyzeAttemptNoFallback(repo_data, attempt, out, now) ==
    LET c == Classify(out) IN
    IF c = "valid"
    THEN [done |-> TRUE,
          scorecard |-> Some(_build_oriflame_scorecard(out.parsed.entries, RepoName(repo_data), now))]
    ELSE IF c \in {"raise", "valid_build_raises"}
    THEN [done |-> TRUE, scorecard |-> Some(_create_basic_scorecard(repo_data, now))]
    ELSE IF attempt = max_retries - 1
    THEN [done |-> TRUE, scorecard |-> None]
    ELSE [done |-> FALSE, scorecard |-> None]

\* a loop that calls the model once more than max_retries
MutAnalyzeAttemptExtraTry(repo_data, attempt, out, now) ==
    LET c == Classify(out) IN
    IF c = "valid"
    THEN [done |-> TRUE,
          scorecard |-> Some(_build_oriflame_scorecard(out.parsed.entries, RepoName(repo_data), now))]
    ELSE IF c \in {"raise", "valid_build_raises"} \/ attempt = max_retries
    THEN [done |-> TRUE, scorecard |-> Some(_create_basic_scorecard(repo_data, now))]
    ELSE [done |-> FALSE, scorecard |-> None]

\* a loop that takes a raising model call as one more failed attempt
MutAnalyzeAttemptRetriesRaise(repo_data, attempt, out, now) ==
    LET c == Classify(out) IN
    IF c = "valid"
    THEN [done |-> TRUE,
          scorecard |-> Some(_build_oriflame_scorecard(out.parsed.entries, RepoName(repo_data), now))]
    ELSE IF c = "valid_build_raises" \/ attempt = max_retries - 1
    THEN [done |-> TRUE, scorecard |-> Some(_create_basic_scorecard(repo_data, now))]
    ELSE [done |-> FALSE, scorecard |-> None]

\* [done, scorecard]: done with the value analyze_repository returns, or not
\* done when the loop continues with the next attempt
AnalyzeAttempt(repo_data, attempt, out, now) ==
    LET c == Classify(out) IN
    IF c = "valid"
    THEN [done |-> TRUE,
          scorecard |-> Some(_build_oriflame_scorecard(out.parsed.entries, RepoName(repo_data), now))]
    \* an exception of the model call or of the build reaches the outer handler
    ELSE IF c \in {"raise", "valid_build_raises"}
    THEN [done |-> TRUE, scorecard |-> Some(_create_basic_scorecard(repo_data, now))]
    \* empty, blank, invalid: raise on the last attempt, caught by the outer
    \* handler; garbage: the JSONDecodeError handler returns the fallback
    ELSE IF attempt = max_retries - 1
    THEN [done |-> TRUE, scorecard |-> Some(_create_basic_scorecard(repo_data, now))]
    ELSE [done |-> FALSE, scorecard |-> None]

(***************************************************************************)
(* graph.py: scoring_agent_node, before and after analyze_repository       *)
(***************************************************************************)
\* a key check that is inverted
MutScoringEntryErrorInverted(st, api_key) ==
    IF NotDict(st.repo_data)
    THEN Some(<< "No repository data available for scoring" >>)
    ELSE IF api_key
    THEN Some(<< "GOOGLE_API_KEY not found in environment variables" >>)
    ELSE None

\* the error the node returns without calling the agent, if any
ScoringEntryError(st, api_key) ==
    IF NotDict(st.repo_data)
    THEN Some(<< "No repository data available for scoring" >>)
    ELSE IF ~api_key
    THEN Some(<< "GOOGLE_API_KEY not found in environment variables" >>)
    ELSE None

ScoringNodeReturn(st, scorecard) ==
    [st EXCEPT !.scorecard_json = scorecard, !.processing_status = "scoring_complete"]

(***************************************************************************)
(* The content provider holding component-score.json.  A revision marker   *)
(* is a positive number; 0 is the empty string.                            *)
(***************************************************************************)
NoFile == [exists |-> FALSE, sha |-> 0, author |-> "none"]

\* str(response.status_code)
CodeStr(code) ==
    CASE code = 200 -> "200" [] code = 201 -> "201" [] code = 404 -> "404"
      [] code = 409 -> "409" [] code = 422 -> "422" [] code = 500 -> "500"

\* response.text of a rejected write
Body(code) ==
    CASE code = 409 -> "conflict"
      [] code = 422 -> "sha wasn't supplied"
      [] OTHER -> "server error"

\* the answers to GET contents/component-score.json
LookupResponses(file) ==
    (IF file.exists
     THEN { [kind |-> "response", status_code |-> 200, hasSha |-> TRUE, sha |-> file.sha],
            [kind |-> "response", status_code |-> 200, hasSha |-> TRUE, sha |-> 0],
            [kind |-> "response", status_code |-> 200, hasSha |-> FALSE, sha |-> 0] }
     ELSE { [kind |-> "response", status_code |-> 404, hasSha |-> FALSE, sha |-> 0] })
    \cup { [kind |-> "response", status_code |-> 500, hasSha |-> FALSE, sha |-> 0],
           [kind |-> "exception", status_code |-> 0, hasSha |-> FALSE, sha |-> 0] }

\* the marker the write request carries is the one the provider holds
\* (no marker for no file)
MarkerCurrent(file, req) ==
    IF file.exists THEN ~IsNone(req.sha) /\ Val(req.sha) = file.sha
    ELSE IsNone(req.sha)

\* the marker a write gives the file
NextSha(file) == IF file.exists THEN file.sha + 1 ELSE 1

\* the answers to PUT contents/component-score.json: optimistic concurrency
\* on the marker
PutResponses(file, req) ==
    (IF MarkerCurrent(file, req)
     THEN { [status_code |-> IF file.exists THEN 200 ELSE 201, applied |-> TRUE,
             body |-> "content", commit |-> NextSha(file)] }
     ELSE { [status_code |-> IF IsNone(req.sha) THEN 422 ELSE 409, applied |-> FALSE,
             body |-> Body(IF IsNone(req.sha) THEN 422 ELSE 409), commit |-> 0] })
    \cup { [status_code |-> 500, applied |-> FALSE, body |-> Body(500), commit |-> 0] }

(***************************************************************************)
(* CommitAgent                                                             *)
(***************************************************************************)
\* _get_file_sha
_get_file_sha(resp) ==
    IF resp.kind = "exception" THEN None
    ELSE IF resp.status_code = 200
         \* file_data['sha']: KeyError, caught, when the member is absent
         THEN (IF resp.hasSha THEN Some(resp.sha) ELSE None)
    ELSE None

\* a test for None only
MutTruthyNotNone(sha) == ~IsNone(sha)

\* if current_sha:
Truthy(sha) == ~IsNone(sha) /\ Val(sha) # 0

\* a request that always carries a sha member
MutCommitDataAlwaysSha(scorecard_json, current_sha) ==
    [message |-> << "Update ", "component-score.json", " with automated scorecard analysis" >>,
     content |-> [base64 |-> [json |-> scorecard_json]],
     branch |-> "main",
     sha |-> IF IsNone(current_sha) THEN Some(0) ELSE current_sha]

\* commit_data, as sent by requests.put
CommitData(scorecard_json, current_sha) ==
    [message |-> << "Update ", "component-score.json", " with automated scorecard analysis" >>,
     content |-> [base64 |-> [json |-> scorecard_json]],
     branch |-> "main",
     sha |-> IF Truthy(current_sha) THEN current_sha ELSE None]

\* a check that takes a conflict as "already up to date"
MutCommitOutcomeConflictOk(resp) ==
    IF resp.status_code \in {200, 201, 409}
    THEN [ok |-> TRUE, commit_sha |-> resp.commit,
          message |-> << "Scorecard committed successfully" >>]
    ELSE [ok |-> FALSE, commit_sha |-> 0,
          message |-> << "Commit operation failed: ", "Failed to commit file: ",
                         CodeStr(resp.status_code), " - ", resp.body >>]

\* a check that takes every answer below 500 as success
MutCommitOutcomeLax(resp) ==
    IF resp.status_code < 500
    THEN [ok |-> TRUE, commit_sha |-> resp.commit,
          message |-> << "Scorecard committed successfully" >>]
    ELSE [ok |-> FALSE, commit_sha |-> 0,
          message |-> << "Commit operation failed: ", "Failed to commit file: ",
                         CodeStr(resp.status_code), " - ", resp.body >>]

\* commit_scorecard after the write: the pair returned, or the message of
\* the exception raised
CommitOutcome(resp) ==
    IF resp.status_code \in {200, 201}
    THEN [ok |-> TRUE, commit_sha |-> resp.commit,
          message |-> << "Scorecard committed successfully" >>]
    ELSE [ok |-> FALSE, commit_sha |-> 0,
          message |-> << "Commit operation failed: ", "Failed to commit file: ",
                         CodeStr(resp.status_code), " - ", resp.body >>]

\* a constructor that accepts a missing token
MutCommitEntryErrorNoTokenCheck(st, token) ==
    IF NotDict(st.scorecard_json) \/ NotDict(st.repo_data)
    THEN [failed |-> TRUE, agent |-> None,
          error |-> << "Missing scorecard JSON or repository data for commit" >>]
    ELSE [failed |-> FALSE, agent |-> None, error |-> << >>]

\* commit_agent_node up to the lookup: the node's own input check, the
\* constructor of CommitAgent, the owner/repo check of commit_scorecard.
\* agent is the message of the exception CommitAgent raised, if any.
CommitEntryError(st, token) ==
    IF NotDict(st.scorecard_json) \/ NotDict(st.repo_data)
    THEN [failed |-> TRUE, agent |-> None,
          error |-> << "Missing scorecard JSON or repository data for commit" >>]
    ELSE IF ~token
    THEN [failed |-> TRUE,
          agent |-> Some(<< "GITHUB_TOKEN environment variable is required" >>),
          error |-> << "Commit error: ", "GITHUB_TOKEN environment variable is required" >>]
    ELSE IF Len(Val(st.repo_data).owner) = 0 \/ Len(Val(st.repo_data).repo_name) = 0
    THEN [failed |-> TRUE,
          agent |-> Some(<< "Commit operation failed: ",
                            "Repository owner and name not found in repo_data" >>),
          error |-> << "Commit error: ", "Commit operation failed: ",
                       "Repository owner and name not found in repo_data" >>]
    ELSE [failed |-> FALSE, agent |-> None, error |-> << >>]

\* a node that records the agent's message with no prefix
MutCommitNodeReturnNoPrefix(st, out) ==
    IF out.ok
    THEN [st EXCEPT !.commit_result = Some(out.message), !.commit_sha = Some(out.commit_sha),
                    !.processing_status = "complete"]
    ELSE Failed(st, out.message)

\* a node that leaves the commit identifier out
MutCommitNodeReturnNoSha(st, out) ==
    IF out.ok
    THEN [st EXCEPT !.commit_result = Some(out.message), !.processing_status = "complete"]
    ELSE Failed(st, << "Commit error: " >> \o out.message)

\* commit_agent_node after commit_scorecard returned or raised
CommitNodeReturn(st, out) ==
    IF out.ok
    THEN [st EXCEPT !.commit_result = Some(out.message), !.commit_sha = Some(out.commit_sha),
                    !.processing_status = "complete"]
    ELSE Failed(st, << "Commit error: " >> \o out.message)

(***************************************************************************)
(* graph.py: scoring_agent_node and commit_agent_node as single calls.     *)
(* agent is what ScoringAgent gave: a scorecard, or the message of an      *)
(* exception; resp is the provider's answer to the write request.          *)
(***************************************************************************)
scoring_agent_node(st, api_key, agent) ==
    LET e == ScoringEntryError(st, api_key) IN
    IF ~IsNone(e) THEN Failed(st, Val(e))
    ELSE IF agent.raised THEN Failed(st, << "Scoring analysis error: " >> \o agent.message)
    ELSE ScoringNodeReturn(st, agent.scorecard)

commit_agent_node(st, token, resp) ==
    LET e == CommitEntryError(st, token) IN
    IF e.failed THEN Failed(st, e.error)
    ELSE CommitNodeReturn(st, CommitOutcome(resp))

(***************************************************************************)
(* process_scorecard: the results it returns                               *)
(***************************************************************************)
InputValidationResult ==
    [processing_status |-> "input_validation_failed",
     error |-> Some(<< "No repository URL provided" >>),
     repo_data |-> None, scorecard_json |-> None, commit_result |-> None,
     commit_sha |-> None, errors |-> None]

CriticalErrorResult(e) ==
    [processing_status |-> "critical_error",
     error |-> Some(<< "Critical workflow error: " >> \o e),
     repo_data |-> None, scorecard_json |-> None, commit_result |-> None,
     commit_sha |-> None, errors |-> Some(<< e >>)]

ExtractResult(final_state) ==
    [processing_status |-> final_state.processing_status,
     error |-> None,
     repo_data |-> final_state.repo_data,
     scorecard_json |-> final_state.scorecard_json,
     commit_result |-> final_state.commit_result,
     commit_sha |-> final_state.commit_sha,
     errors |-> Some(final_state.errors)]

(***************************************************************************)
(* The state machine.                                                      *)
(***************************************************************************)
VARIABLES
    repo_url,        \* the argument of process_scorecard
    github_token,    \* GITHUB_TOKEN is set
    google_api_key,  \* GOOGLE_API_KEY is set
    pc,              \* where the run is: start, a node of the graph, model_call,
                     \* commit_put, END, done
    state,           \* the ScorecardAgentState the graph threads through the nodes
    result,          \* what process_scorecard returned (Optional)
    attempt,         \* the index of the retry loop of analyze_repository
    attempt_log,     \* how each model call so far was classified
    commit_data,     \* the write request commit_scorecard prepared (Optional)
    lookup_log,      \* the answer _get_file_sha received (Optional)
    put_log,         \* the answer to the write request and the file it met (Optional)
    remote_file,     \* component-score.json at the provider
    other_writes,    \* writes made by the other writer
    lookups,         \* marker lookups issued
    writes,          \* write requests issued
    started,         \* the nodes started, in order, each with the status it was given
    running,         \* the nodes started and not yet returned
    overlap,         \* a node started while another was running
    agent_error,     \* the message the failing agent produced (Optional)
    fetch_log,       \* the fetches load_repository made
    asm_in,          \* scorecard assembly alone: the entry scores given
    asm_out,         \* scorecard assembly alone: the scorecard built (Optional)
    call_in,         \* a function called alone: its name and its argument
    call_out,        \* a function called alone: what it returned (Optional)
    content_api,     \* traversal alone: the tree the content API serves, the
                     \* directories it fails to list, the files it fails to deliver
    frames,          \* traversal alone: the invocations of traverse_repository in progress
    traversed_files, \* traversal alone: the paths of the files collected so far
    listed           \* traversal alone: the directories whose contents were requested

vars == << repo_url, github_token, google_api_key, pc, state, result, attempt,
           attempt_log, commit_data, lookup_log, put_log, remote_file, other_writes,
           lookups, writes, started, running, overlap, agent_error, fetch_log,
           asm_in, asm_out, call_in, call_out, content_api, frames, traversed_files, listed >>

\* what no action of a pipeline run changes
env == << repo_url, github_token, google_api_key, asm_in, asm_out, call_in, call_out,
         content_api, frames, traversed_files, listed >>

\* no function is called alone
NoCall == [fn |-> "none", arg |-> << >>]

\* no traversal is followed step by step
NoTraversal ==
    /\ content_api = [tree |-> "none", unlistable |-> {}, undecoded |-> {}]
    /\ frames = << >>
    /\ traversed_files = << >>
    /\ listed = {}

Init ==
    /\ repo_url \in Urls
    /\ github_token \in BOOLEAN
    /\ google_api_key \in BOOLEAN
    /\ pc = "start"
    /\ state = NoState
    /\ result = None
    /\ attempt = 0
    /\ attempt_log = << >>
    /\ commit_data = None
    /\ lookup_log = None
    /\ put_log = None
    /\ remote_file \in {NoFile, [exists |-> TRUE, sha |-> 1, author |-> "other"]}
    /\ other_writes = 0
    /\ lookups = 0
    /\ writes = 0
    /\ started = << >>
    /\ running = {}
    /\ overlap = FALSE
    /\ agent_error = None
    /\ fetch_log = << >>
    /\ asm_in = NoKeys
    /\ asm_out = None
    /\ call_in = NoCall
    /\ call_out = None
    /\ NoTraversal

\* process_scorecard with an empty URL
RejectEmptyUrl ==
    /\ pc = "start"
    /\ repo_url.empty
    /\ result' = Some(InputValidationResult)
    /\ pc' = "done"
    /\ UNCHANGED << env, state, attempt, attempt_log, commit_data, lookup_log, put_log,
                    remote_file, other_writes, lookups, writes, started, running,
                    overlap, agent_error, fetch_log >>

\* process_scorecard: initial_state, create_scorecard_graph, invoke reaches START
StartWorkflow ==
    /\ pc = "start"
    /\ ~repo_url.empty
    /\ state' = initial_state(repo_url)
    /\ pc' = "repo_loader"
    /\ UNCHANGED << env, result, attempt, attempt_log, commit_data, lookup_log, put_log,
                    remote_file, other_writes, lookups, writes, started, running,
                    overlap, agent_error, fetch_log >>

\* process_scorecard: the workflow raises instead of running the nodes (the
\* nodes themselves catch every exception); taken at graph construction
WorkflowRaises ==
    /\ pc = "start"
    /\ ~repo_url.empty
    /\ result' = Some(CriticalErrorResult(<< "graph construction failed" >>))
    /\ pc' = "done"
    /\ UNCHANGED << env, state, attempt, attempt_log, commit_data, lookup_log, put_log,
                    remote_file, other_writes, lookups, writes, started, running,
                    overlap, agent_error, fetch_log >>

\* the repo_loader node and the routing after it
RepoLoader ==
    /\ pc = "repo_loader"
    /\ \E net \in LoaderNets :
         LET r == load_repository(state.repo_url, net)
             st == repo_loader_node(state, net)
         IN /\ state' = st
            /\ fetch_log' = r.fetches
            /\ agent_error' = IF st.processing_status = "failed" THEN Some(r.status) ELSE None
            /\ pc' = Route("repo_loader", st)
    /\ started' = Append(started, [node |-> "repo_loader", status |-> state.processing_status])
    /\ overlap' = (overlap \/ running # {})
    /\ UNCHANGED << env, result, attempt, attempt_log, commit_data, lookup_log, put_log,
                    remote_file, other_writes, lookups, writes, running >>

\* the scoring_agent node up to the first model call
ScoringEnter ==
    /\ pc = "scoring_agent"
    /\ started' = Append(started, [node |-> "scoring_agent", status |-> state.processing_status])
    /\ overlap' = (overlap \/ running # {})
    /\ LET e == ScoringEntryError(state, google_api_key) IN
         IF ~IsNone(e)
         THEN /\ state' = Failed(state, Val(e))
              /\ pc' = Route("scoring_agent", state')
              /\ UNCHANGED running
         ELSE /\ pc' = "model_call"
              /\ running' = running \cup {"scoring_agent"}
              /\ UNCHANGED state
    /\ attempt' = 0
    /\ UNCHANGED << env, result, attempt_log, commit_data, lookup_log, put_log,
                    remote_file, other_writes, lookups, writes, agent_error, fetch_log >>

\* one iteration of the retry loop; on the last one the node returns
ModelCall ==
    /\ pc = "model_call"
    /\ \E out \in ModelOutcomes, now \in 1..MaxTime :
         LET a == AnalyzeAttempt(Val(state.repo_data), attempt, out, now) IN
         /\ attempt_log' = Append(attempt_log, Classify(out))
         /\ IF a.done
            THEN /\ state' = ScoringNodeReturn(state, a.scorecard)
                 /\ pc' = Route("scoring_agent", state')
                 /\ running' = running \ {"scoring_agent"}
                 /\ UNCHANGED attempt
            ELSE /\ attempt' = attempt + 1
                 /\ UNCHANGED << state, pc, running >>
    /\ UNCHANGED << env, result, commit_data, lookup_log, put_log, remote_file,
                    other_writes, lookups, writes, started, overlap, agent_error,
                    fetch_log >>

\* the commit_agent node up to the write request: input check, constructor,
\* marker lookup, commit_data
CommitLookup ==
    /\ pc = "commit_agent"
    /\ started' = Append(started, [node |-> "commit_agent", status |-> state.processing_status])
    /\ overlap' = (overlap \/ running # {})
    /\ LET e == CommitEntryError(state, github_token) IN
         IF e.failed
         THEN /\ state' = Failed(state, e.error)
              /\ agent_error' = e.agent
              /\ pc' = Route("commit_agent", state')
              /\ UNCHANGED << running, lookups, lookup_log, commit_data >>
         ELSE /\ \E resp \in LookupResponses(remote_file) :
                   /\ lookup_log' = Some(resp)
                   /\ commit_data' = Some(CommitData(Val(state.scorecard_json), _get_file_sha(resp)))
              /\ lookups' = lookups + 1
              /\ pc' = "commit_put"
              /\ running' = running \cup {"commit_agent"}
              /\ UNCHANGED << state, agent_error >>
    /\ UNCHANGED << env, result, attempt, attempt_log, put_log, remote_file,
                    other_writes, writes, fetch_log >>

\* the write request, the provider's answer, and the node's return
CommitPut ==
    /\ pc = "commit_put"
    /\ \E resp \in PutResponses(remote_file, Val(commit_data)) :
         LET out == CommitOutcome(resp) IN
         /\ put_log' = Some([resp |-> resp, met |-> remote_file])
         /\ remote_file' = IF resp.applied
                           THEN [exists |-> TRUE, sha |-> NextSha(remote_file),
                                 author |-> "pipeline"]
                           ELSE remote_file
         /\ state' = CommitNodeReturn(state, out)
         /\ agent_error' = IF out.ok THEN None ELSE Some(out.message)
         /\ pc' = Route("commit_agent", state')
    /\ writes' = writes + 1
    /\ running' = running \ {"commit_agent"}
    /\ UNCHANGED << env, result, attempt, attempt_log, commit_data, lookup_log,
                    other_writes, lookups, started, overlap, fetch_log >>

\* another writer creates or changes component-score.json.  Its writes are
\* seen by the run only through the lookup and the write, so they are taken
\* from the start of the commit node on; Init gives the file any earlier
\* writer left.
OtherWriter ==
    /\ pc \in {"commit_agent", "commit_put"}
    /\ other_writes < MaxOtherWrites
    /\ other_writes' = other_writes + 1
    /\ remote_file' = [exists |-> TRUE, sha |-> NextSha(remote_file), author |-> "other"]
    /\ UNCHANGED << env, pc, state, result, attempt, attempt_log, commit_data, lookup_log,
                    put_log, lookups, writes, started, running, overlap, agent_error,
                    fetch_log >>

\* the graph reached END: process_scorecard extracts the result
Finish ==
    /\ pc = "END"
    /\ result' = Some(ExtractResult(state))
    /\ pc' = "done"
    /\ UNCHANGED << env, state, attempt, attempt_log, commit_data, lookup_log, put_log,
                    remote_file, other_writes, lookups, writes, started, running,
                    overlap, agent_error, fetch_log >>

Next ==
    \/ RejectEmptyUrl
    \/ StartWorkflow
    \/ WorkflowRaises
    \/ RepoLoader
    \/ ScoringEnter
    \/ ModelCall
    \/ CommitLookup
    \/ CommitPut
    \/ OtherWriter
    \/ Finish

Spec == Init /\ [][Next]_vars

(***************************************************************************)
(* The compiled graph alone: invoke(initial_state) runs the nodes as single *)
(* calls, each returning with any of its outcomes, and check_success       *)
(* routes after each.                                                      *)
(***************************************************************************)
\* an exception reaches the scoring node
AgentRaised == [raised |-> TRUE, scorecard |-> None, message |-> << "model not found" >>]

\* what analyze_repository returns to the scoring node for the bundle of
\* st: the fallback scorecard, or the one built from the model's answer
AgentReturns(st) ==
    IF NotDict(st.repo_data) THEN {}
    ELSE { [raised |-> FALSE, message |-> << >>, scorecard |-> Some(card)] :
             card \in { _create_basic_scorecard(Val(st.repo_data), 1),
                        _build_oriflame_scorecard(FullEntries, RepoName(Val(st.repo_data)), 1) } }

\* the answers of the provider to the write request of the commit node
GraphPutResponses ==
    UNION { PutResponses(file, CommitData(EmptyDict, sha)) :
              file \in {NoFile, [exists |-> TRUE, sha |-> 1, author |-> "other"]},
              sha \in {None, Some(1)} }

InitGraph ==
    /\ repo_url \in Urls \ {EmptyUrl}
    /\ github_token \in BOOLEAN
    /\ google_api_key \in BOOLEAN
    \* final_state = graph.invoke(initial_state): the entry point is repo_loader
    /\ pc = "repo_loader"
    /\ state = initial_state(repo_url)
    /\ result = None
    /\ attempt = 0
    /\ attempt_log = << >>
    /\ commit_data = None
    /\ lookup_log = None
    /\ put_log = None
    /\ remote_file = NoFile
    /\ other_writes = 0
    /\ lookups = 0
    /\ writes = 0
    /\ started = << >>
    /\ running = {}
    /\ overlap = FALSE
    /\ agent_error = None
    /\ fetch_log = << >>
    /\ asm_in = NoKeys
    /\ asm_out = None
    /\ call_in = NoCall
    /\ call_out = None
    /\ NoTraversal

\* the graph calls node, which returns st; check_success routes
NodeRuns(node, st) ==
    /\ pc = node
    /\ state' = st
    /\ pc' = Route(node, st)
    /\ started' = Append(started, [node |-> node, status |-> state.processing_status])
    /\ UNCHANGED << env, result, attempt, attempt_log, commit_data, lookup_log, put_log,
                    remote_file, other_writes, lookups, writes, running, overlap,
                    agent_error, fetch_log >>

LoaderNodeRuns ==
    \E net \in LoaderNets : NodeRuns("repo_loader", repo_loader_node(state, net))

ScoringNodeRuns ==
    /\ pc = "scoring_agent"
    /\ \/ NodeRuns("scoring_agent", scoring_agent_node(state, google_api_key, AgentRaised))
       \/ \E agent \in AgentReturns(state) :
             NodeRuns("scoring_agent", scoring_agent_node(state, google_api_key, agent))

CommitNodeRuns ==
    \E resp \in GraphPutResponses :
        NodeRuns("commit_agent", commit_agent_node(state, github_token, resp))

NextGraph ==
    \/ LoaderNodeRuns
    \/ ScoringNodeRuns
    \/ CommitNodeRuns
    \/ Finish

\* every node call returns and the graph runtime takes the next step
\* whenever there is one
SpecGraph == InitGraph /\ [][NextGraph]_vars /\ WF_vars(NextGraph)

(***************************************************************************)
(* Scorecard assembly alone: _build_oriflame_scorecard applied to entry    *)
(* scores drawn from the maps below.                                       *)
(***************************************************************************)
AllKeys == {"1", "2", "3", "4", "5", "6", "7", "8", "9", "10", "11"}

\* a second table of scores, on the thresholds of the status labels
ThresholdEntries ==
    [k \in AllKeys |->
        CASE k \in {"1", "4"} -> EntryObj(IntScore(90), Text("ninety"))
          [] k \in {"2", "5"} -> EntryObj(IntScore(89), Text("eighty-nine"))
          [] k \in {"3", "7"} -> EntryObj(IntScore(49), Text("forty-nine"))
          [] k \in {"6", "9"} -> EntryObj(IntScore(0), Text("zero"))
          [] OTHER -> EntryObj(IntScore(100), Text("hundred"))]

\* a third table: the remaining thresholds, and scores outside 0..100 (a
\* score is accepted by _validate_ai_response whatever its value)
WideEntries ==
    [k \in AllKeys |->
        CASE k \in {"1", "2", "3"} -> EntryObj(IntScore(1000), Text("thousand"))
          [] k = "4" -> EntryObj(IntScore(70), Text("seventy"))
          [] k = "5" -> EntryObj(IntScore(69), Text("sixty-nine"))
          [] k = "6" -> EntryObj(IntScore(50), Text("fifty"))
          [] k = "7" -> EntryObj(IntScore(-140), Text("negative"))
          [] k = "8" -> EntryObj(IntScore(49), Text("forty-nine"))
          [] k = "9" -> EntryObj(IntScore(90), Text("ninety"))
          [] OTHER -> EntryObj(IntScore(89), Text("eighty-nine"))]

AsmInputs ==
    { Restrict(t, K) : t \in {FullEntries, ThresholdEntries, WideEntries},
                       K \in SUBSET AllKeys }

InitAssembly ==
    /\ repo_url = TwoSegmentUrl
    /\ github_token = TRUE
    /\ google_api_key = TRUE
    /\ pc = "assembly"
    /\ state = NoState
    /\ result = None
    /\ attempt = 0
    /\ attempt_log = << >>
    /\ commit_data = None
    /\ lookup_log = None
    /\ put_log = None
    /\ remote_file = NoFile
    /\ other_writes = 0
    /\ lookups = 0
    /\ writes = 0
    /\ started = << >>
    /\ running = {}
    /\ overlap = FALSE
    /\ agent_error = None
    /\ fetch_log = << >>
    /\ asm_in \in AsmInputs
    /\ asm_out = None
    /\ call_in = NoCall
    /\ call_out = None
    /\ NoTraversal

Assemble ==
    /\ pc = "assembly"
    /\ IsNone(asm_out)
    /\ \E now \in 1..MaxTime :
         asm_out' = Some(_build_oriflame_scorecard(asm_in, << "widget" >>, now))
    /\ UNCHANGED << repo_url, github_token, google_api_key, pc, state, result, attempt,
                    attempt_log, commit_data, lookup_log, put_log, remote_file,
                    other_writes, lookups, writes, started, running, overlap,
                    agent_error, fetch_log, asm_in, call_in, call_out, content_api,
                    frames, traversed_files, listed >>

NextAssembly == Assemble

SpecAssembly == InitAssembly /\ [][NextAssembly]_vars

(***************************************************************************)
(* analyze_repository alone: the scoring_agent node has called it with a   *)
(* bundle built from any selection of the files above.                     *)
(***************************************************************************)
AllFiles == << F_readme, F_main, F_package, F_gradle, F_jenkins, F_license >>

\* the files of files whose index is in keep, in order
RECURSIVE Pick(_, _, _)
Pick(files, keep, i) ==
    IF i > Len(files) THEN << >>
    ELSE (IF i \in keep THEN << files[i] >> ELSE << >>) \o Pick(files, keep, i + 1)

FileLists == { Pick(AllFiles, K, 1) : K \in SUBSET (1..Len(AllFiles)) }

ScoringBundles ==
    { RepoData(<< "acme" >>, << "widget" >>, << "Python" >>, fs) : fs \in FileLists }

InitScoring ==
    /\ repo_url = TwoSegmentUrl
    /\ github_token = TRUE
    /\ google_api_key = TRUE
    /\ pc = "model_call"
    /\ \E b \in ScoringBundles :
         state = [initial_state(TwoSegmentUrl) EXCEPT
                     !.repo_data = Some(b), !.processing_status = "repo_loaded"]
    /\ result = None
    /\ attempt = 0
    /\ attempt_log = << >>
    /\ commit_data = None
    /\ lookup_log = None
    /\ put_log = None
    /\ remote_file = NoFile
    /\ other_writes = 0
    /\ lookups = 0
    /\ writes = 0
    /\ started = << [node |-> "repo_loader", status |-> "initialized"],
                    [node |-> "scoring_agent", status |-> "repo_loaded"] >>
    /\ running = {"scoring_agent"}
    /\ overlap = FALSE
    /\ agent_error = None
    /\ fetch_log = << "metadata", "languages", "contents" >>
    /\ asm_in = NoKeys
    /\ asm_out = None
    /\ call_in = NoCall
    /\ call_out = None
    /\ NoTraversal

NextScoring == ModelCall

SpecScoring == InitScoring /\ [][NextScoring]_vars

(***************************************************************************)
(* Functions called alone, each on arguments drawn from the sets below:    *)
(* _create_basic_scorecard, parse_github_url, load_repository,             *)
(* _validate_ai_response and check_success.                                *)
(***************************************************************************)
\* a bundle with the metadata m and the classification mapping o, each
\* Optional: the key is absent when it is None
MakeBundle(m, o) ==
    [k \in {"owner"} \cup (IF IsNone(m) THEN {} ELSE {"repo_metadata"})
                     \cup (IF IsNone(o) THEN {} ELSE {"organized_files"}) |->
        CASE k = "repo_metadata" -> Val(m)
          [] k = "organized_files" -> Val(o)
          [] OTHER -> << "acme" >>]

\* the bundles _create_basic_scorecard is called with: metadata absent,
\* empty or with a name; classification mapping absent, empty, with one key
\* only, or built from a selection of files (none included)
CallBundles ==
    { MakeBundle(m, o) :
        m \in { None, Some(EmptyDict), Some([name |-> << "widget" >>]) },
        o \in { None, Some(EmptyDict), Some([c \in {"documentation"} |-> << F_readme >>]) }
              \cup { Some(_organize_files_by_type(fs)) : fs \in FileLists } }

\* parsed.path.strip('/'): a path is a sequence of tokens, "/" one of them
RECURSIVE StripLeft(_)
StripLeft(path) ==
    IF Len(path) > 0 /\ Head(path) = "/" THEN StripLeft(Tail(path)) ELSE path

RECURSIVE StripRight(_)
StripRight(path) ==
    IF Len(path) > 0 /\ path[Len(path)] = "/"
    THEN StripRight(SubSeq(path, 1, Len(path) - 1)) ELSE path

Strip(path) == StripRight(StripLeft(path))

\* str.split('/'): the segments between the slashes, empty ones included
RECURSIVE Split(_)
Split(path) ==
    IF Len(path) = 0 THEN << << >> >>
    ELSE IF Head(path) = "/" THEN << << >> >> \o Split(Tail(path))
    ELSE LET r == Split(Tail(path)) IN << << Head(path) >> \o Head(r) >> \o Tail(r)

\* the URL whose path is path, as parse_github_url takes it apart
UrlOfPath(path) == [empty |-> FALSE, parts |-> Split(Strip(path))]

Owners == { << "acme" >>, << "dev", ".git" >> }

RepoSegments ==
    { << "widget" >>, << "widget", ".git" >>, << "acme", ".git", "hub.io" >>,
      << ".git" >>, << "widget", ".git", ".git" >>, << ".git", "ignore" >> }

CallPaths ==
    { lead \o o \o << "/" >> \o r \o rest :
        lead \in { << >>, << "/" >> }, o \in Owners, r \in RepoSegments,
        rest \in { << >>, << "/" >>, << "/", "tree", "/", "main" >> } }
    \cup { << "/" >>, << "/", "acme" >>, << "/", "acme", "/" >>,
           << "/", "acme", "/", "/", "widget" >> }

\* the URLs load_repository is called with
CallLoadUrls ==
    { UrlOfPath(path) :
        path \in { << "/" >>, << "/", "acme" >>, << "/", "acme", "/", "widget", ".git" >>,
                   << "/", "acme", "/", ".git" >>, << "/", "acme", "/", "/", "widget" >>,
                   << "/", "acme", "/", "acme", ".git", "hub.io", "/" >> } }

\* what the network gives these loads: the files listed, and the paths whose
\* content fetch fails
CallNets ==
    [meta : BOOLEAN, langs : BOOLEAN, listing : {"ok", "malformed"},
     files : { << >>, << F_license >>, << F_readme, F_package, F_gradle >>, AllFiles,
               OverlapFiles },
     undecoded : { {}, {"LICENSE"}, {"README.md", "package.json", "build.gradle"} }]

\* the states check_success is called with: the status and the error list
\* each absent or present
RouteStates ==
    { [k \in S \cup E |-> IF k = "processing_status" THEN status ELSE errors] :
        S \in { {}, {"processing_status"} }, E \in { {}, {"errors"} },
        status \in {"initialized", "repo_loaded", "scoring_complete", "complete",
                    "failed", "paused"},
        errors \in { << >>, << << "Commit error: ", "conflict" >> >> } }

\* the states the nodes are called with: fields already attached or not,
\* an error list already holding a string or not
NodeBundle == RepoData(<< "acme" >>, << "widget" >>, << "Python" >>, << F_readme >>)

NodeStates ==
    [repo_url : {EmptyUrl, TwoSegmentUrl},
     repo_data : {None, Some(EmptyDict), Some(NodeBundle)},
     scorecard_json : {None, Some(_create_basic_scorecard(NodeBundle, 1))},
     commit_result : {None, Some(<< "Scorecard committed successfully" >>)},
     commit_sha : {None, Some(1)},
     processing_status : {"initialized", "repo_loaded", "scoring_complete"},
     errors : { << >>, << << "Failed to fetch repository metadata" >> >> }]

\* what ScoringAgent gives the node
AgentOutcomes ==
    { [raised |-> FALSE, scorecard |-> Some(_create_basic_scorecard(NodeBundle, 2)),
       message |-> << >>],
      [raised |-> TRUE, scorecard |-> None, message |-> << "model not found" >>] }

NodeNets ==
    { net \in LoaderNets : net.langs /\ net.files = << F_readme, F_main, F_package,
                                                        F_gradle, F_jenkins, F_license >> }

CallInputs ==
    [fn : {"_create_basic_scorecard"}, arg : CallBundles]
    \cup [fn : {"parse_github_url"}, arg : { UrlOfPath(path) : path \in CallPaths }]
    \cup [fn : {"load_repository"}, arg : [url : CallLoadUrls, net : CallNets]]
    \cup [fn : {"_validate_ai_response"}, arg : ParsedResponses]
    \cup [fn : {"check_success"}, arg : RouteStates]
    \cup [fn : {"repo_loader_node"}, arg : [st : NodeStates, net : NodeNets]]
    \cup [fn : {"scoring_agent_node"},
          arg : [st : NodeStates, api_key : BOOLEAN, agent : AgentOutcomes]]
    \cup [fn : {"commit_agent_node"},
          arg : [st : NodeStates, token : BOOLEAN, resp : GraphPutResponses]]

InitCalls ==
    /\ repo_url = TwoSegmentUrl
    /\ github_token = TRUE
    /\ google_api_key = TRUE
    /\ pc = "call"
    /\ state = NoState
    /\ result = None
    /\ attempt = 0
    /\ attempt_log = << >>
    /\ commit_data = None
    /\ lookup_log = None
    /\ put_log = None
    /\ remote_file = NoFile
    /\ other_writes = 0
    /\ lookups = 0
    /\ writes = 0
    /\ started = << >>
    /\ running = {}
    /\ overlap = FALSE
    /\ agent_error = None
    /\ fetch_log = << >>
    /\ asm_in = NoKeys
    /\ asm_out = None
    /\ call_in \in CallInputs
    /\ call_out = None
    /\ NoTraversal

\* the function named fn is called and returns
Calling(fn) ==
    /\ pc = "call"
    /\ call_in.fn = fn
    /\ pc' = "returned"
    /\ UNCHANGED << repo_url, github_token, google_api_key, state, result, attempt,
                    attempt_log, commit_data, lookup_log, put_log, remote_file,
                    other_writes, lookups, writes, started, running, overlap,
                    agent_error, fetch_log, asm_in, asm_out, call_in, content_api,
                    frames, traversed_files, listed >>

CallFallback ==
    /\ Calling("_create_basic_scorecard")
    /\ \E now \in 1..MaxTime : call_out' = Some(FallbackCall(call_in.arg, now))

CallParse ==
    /\ Calling("parse_github_url")
    /\ call_out' = Some(parse_github_url(call_in.arg))

CallLoad ==
    /\ Calling("load_repository")
    /\ call_out' = Some(load_repository(call_in.arg.url, call_in.arg.net))

CallValidate ==
    /\ Calling("_validate_ai_response")
    /\ call_out' = Some(_validate_ai_response(call_in.arg))

CallRoute ==
    /\ Calling("check_success")
    /\ call_out' = Some(check_success(call_in.arg))

CallLoaderNode ==
    /\ Calling("repo_loader_node")
    /\ call_out' = Some(repo_loader_node(call_in.arg.st, call_in.arg.net))

CallScoringNode ==
    /\ Calling("scoring_agent_node")
    /\ call_out' = Some(scoring_agent_node(call_in.arg.st, call_in.arg.api_key,
                                           call_in.arg.agent))

CallCommitNode ==
    /\ Calling("commit_agent_node")
    /\ call_out' = Some(commit_agent_node(call_in.arg.st, call_in.arg.token,
                                          call_in.arg.resp))

NextCalls ==
    \/ CallFallback
    \/ CallParse
    \/ CallLoad
    \/ CallValidate
    \/ CallRoute
    \/ CallLoaderNode
    \/ CallScoringNode
    \/ CallCommitNode

SpecCalls == InitCalls /\ [][NextCalls]_vars

(***************************************************************************)
(* RepoLoaderAgent.traverse_repository step by step: one frame for each    *)
(* invocation in progress, over the trees below.  A directory item names   *)
(* the node that holds its contents, so a tree may contain itself.         *)
(***************************************************************************)
\* an item of a listing: its name, its type, and for a directory the node
\* that holds its contents
Item(name, type, node) == [name |-> name, type |-> type, node |-> node]

\* cycle: a directory that contains itself, under a plain and under a
\* skipped name; braid: two directories containing each other; noise: skipped
\* directories, a symlink, an irrelevant file; bush: a directory that contains
\* itself twice
Trees ==
    [t \in {"cycle", "braid", "noise", "bush"} |->
       CASE t = "cycle" ->
              [n \in {"root", "L"} |->
                 IF n = "root"
                 THEN << Item("README.md", "file", "none"), Item("loop", "dir", "L") >>
                 ELSE << Item("broken.py", "file", "none"), Item("main.py", "file", "none"),
                         Item("node_modules", "dir", "L"), Item("loop", "dir", "L") >>]
         [] t = "braid" ->
              [n \in {"root", "A", "B"} |->
                 CASE n = "root" -> << Item("a", "dir", "A"), Item("b", "dir", "B") >>
                   [] n = "A" -> << Item("a.py", "file", "none"), Item("b", "dir", "B") >>
                   [] n = "B" -> << Item("a", "dir", "A"), Item("b.py", "file", "none") >>]
         [] t = "noise" ->
              [n \in {"root", "N", "S", "B", "G"} |->
                 CASE n = "root" -> << Item("node_modules", "dir", "N"), Item("broken.py", "file", "none"),
                                      Item("main.py", "file", "none"), Item("link", "symlink", "none"),
                                      Item("src", "dir", "S"), Item(".git", "dir", "G") >>
                   [] n = "N" -> << Item("index.js", "file", "none") >>
                   [] n = "S" -> << Item("app.py", "file", "none"), Item("build", "dir", "B"),
                                   Item("photo.png", "file", "none") >>
                   [] n = "B" -> << Item("out.js", "file", "none") >>
                   [] n = "G" -> << Item("config.json", "file", "none") >>]
         [] t = "bush" ->
              [n \in {"root"} |-> << Item("a", "dir", "root"), Item("b", "dir", "root"),
                                     Item("a.py", "file", "none") >>]]

\* the failures are drawn for every tree but the bush, which is served whole
ContentApis ==
    { a \in [tree : DOMAIN Trees, unlistable : { {}, {"L"}, {"S", "A"} },
             undecoded : { {}, {"broken.py"}, {"broken.py", "main.py", "a.py"} }] :
        a.tree = "bush" => (a.unlistable = {} /\ a.undecoded = {}) }

\* os.path.splitext(file_name.lower())[1]
Extension(file_name) ==
    CASE file_name \in {"broken.py", "main.py", "app.py", "a.py", "b.py"} -> ".py"
      [] file_name \in {"index.js", "out.js"} -> ".js"
      [] file_name = "config.json" -> ".json"
      [] file_name = "README.md" -> ".md"
      [] file_name = "photo.png" -> ".png"
      [] OTHER -> ""

\* is_relevant_file for a file of these trees (no path of theirs contains a
\* name of config_files)
is_relevant_file(file_name) ==
    \/ Extension(file_name) \in {".py", ".js", ".ts", ".jsx", ".tsx", ".java", ".cpp", ".c",
                                  ".cs", ".go", ".rb", ".php", ".swift", ".kt", ".rs",
                                  ".scala", ".sh", ".yml", ".yaml", ".json", ".xml",
                                  ".dockerfile", ".tf"}
    \/ Lower(file_name) \in {"readme.md", "readme.txt", "license", "changelog.md",
                              "contributing.md", "security.md", "makefile"}

skip_dirs ==
    {".git", "node_modules", "__pycache__", ".pytest_cache", "venv", "env", "target",
     "build", "dist", ".next"}

\* max_depth: int = 10
DefaultMaxDepth == 10

\* a depth test that lets one more level through
MutDepthExhaustedLate(max_depth) == max_depth < 0

\* if max_depth <= 0: return []
DepthExhausted(max_depth) == max_depth <= 0

\* get_repo_contents: the listing, or [] when the request fails
get_repo_contents(node) ==
    IF node \in content_api.unlistable THEN << >> ELSE Trees[content_api.tree][node]

\* get_file_content gave a non-empty text
Fetched(file_name) == file_name \notin content_api.undecoded

\* the frame of traverse_repository(owner, repo, path, max_depth) at its start
NewFrame(node, path, max_depth) ==
    [node |-> node, path |-> path, max_depth |-> max_depth, at |-> "entry",
     contents |-> << >>, i |-> 1]

Top == frames[Len(frames)]
Below == SubSeq(frames, 1, Len(frames) - 1)

InitTraverse ==
    /\ repo_url = TwoSegmentUrl
    /\ github_token = TRUE
    /\ google_api_key = TRUE
    /\ pc = "traverse"
    /\ state = NoState
    /\ result = None
    /\ attempt = 0
    /\ attempt_log = << >>
    /\ commit_data = None
    /\ lookup_log = None
    /\ put_log = None
    /\ remote_file = NoFile
    /\ other_writes = 0
    /\ lookups = 0
    /\ writes = 0
    /\ started = << >>
    /\ running = {}
    /\ overlap = FALSE
    /\ agent_error = None
    /\ fetch_log = << >>
    /\ asm_in = NoKeys
    /\ asm_out = None
    /\ call_in = NoCall
    /\ call_out = None
    /\ content_api \in ContentApis
    \* files_data = self.traverse_repository(owner, repo)
    /\ frames = << NewFrame("root", << >>, DefaultMaxDepth) >>
    /\ traversed_files = << >>
    /\ listed = {}

\* what a traversal step leaves alone
TraverseFrame ==
    UNCHANGED << repo_url, github_token, google_api_key, state, result, attempt,
                 attempt_log, commit_data, lookup_log, put_log, remote_file,
                 other_writes, lookups, writes, started, running, overlap,
                 agent_error, fetch_log, asm_in, asm_out, call_in, call_out,
                 content_api >>

\* the invocation on top returns to its caller; the outermost one returns
\* files_data to load_repository
ReturnFromTop ==
    /\ frames' = Below
    /\ pc' = IF Len(frames) = 1 THEN "traversed" ELSE pc

\* an invocation starts: the depth test, then the listing request
TraverseEnter ==
    /\ pc = "traverse"
    /\ Top.at = "entry"
    /\ IF DepthExhausted(Top.max_depth)
       THEN /\ ReturnFromTop
            /\ UNCHANGED listed
       ELSE /\ frames' = Below \o << [Top EXCEPT !.at = "loop",
                                                  !.contents = get_repo_contents(Top.node)] >>
            /\ listed' = listed \cup {[path |-> Top.path, node |-> Top.node]}
            /\ UNCHANGED pc
    /\ UNCHANGED traversed_files
    /\ TraverseFrame

\* one iteration of for item in contents
TraverseItem ==
    /\ pc = "traverse"
    /\ Top.at = "loop"
    /\ Top.i <= Len(Top.contents)
    /\ LET item == Top.contents[Top.i]
           item_path == Append(Top.path, item.name)
           next == [Top EXCEPT !.i = Top.i + 1]
       IN IF item.type = "file"
          THEN /\ traversed_files' =
                    IF is_relevant_file(item.name) /\ Fetched(item.name)
                    THEN Append(traversed_files, item_path) ELSE traversed_files
               /\ frames' = Below \o << next >>
          ELSE IF item.type = "dir" /\ item.name \notin skip_dirs
          THEN /\ frames' = Below \o << next, NewFrame(item.node, item_path, Top.max_depth - 1) >>
               /\ UNCHANGED traversed_files
          ELSE /\ frames' = Below \o << next >>
               /\ UNCHANGED traversed_files
    /\ UNCHANGED << pc, listed >>
    /\ TraverseFrame

\* return files_data
TraverseReturn ==
    /\ pc = "traverse"
    /\ Top.at = "loop"
    /\ Top.i > Len(Top.contents)
    /\ ReturnFromTop
    /\ UNCHANGED << traversed_files, listed >>
    /\ TraverseFrame

NextTraverse ==
    \/ TraverseEnter
    \/ TraverseItem
    \/ TraverseReturn

\* every request is answered and the interpreter keeps running
SpecTraverse == InitTraverse /\ [][NextTraverse]_vars /\ WF_vars(NextTraverse)

(***************************************************************************)
(* Properties.                                                             *)
(***************************************************************************)
Last(q) == q[Len(q)]


\* the scoring_agent node has returned and no later node has started
ScorerReturned ==
    /\ Len(started) = 2
    /\ started[2].node = "scoring_agent"
    /\ pc # "model_call"

\* a bundle (a non-empty repo_data) is attached to the state
BundleAttached == ~NotDict(state.repo_data)

ScorerSucceeded ==
    /\ state.processing_status = "scoring_complete"
    /\ ~NotDict(state.scorecard_json)
    /\ state.errors = << >>

\* C1 (as stated): whenever the Loader ended with repo_loaded and a bundle
\* attached, the Scorer ends with scoring_complete, a scorecard attached and
\* nothing appended to the error list, for every model outcome and every
\* environment configuration.
C1_Original ==
    (ScorerReturned /\ started[2].status = "repo_loaded" /\ BundleAttached)
        => ScorerSucceeded

\* C1 (amended): the same, provided GOOGLE_API_KEY is set; without the key
\* the Scorer ends failed with one error appended and no model call.
C1_ScorerAlwaysScores ==
    (ScorerReturned /\ started[2].status = "repo_loaded" /\ BundleAttached)
        => IF google_api_key
           THEN ScorerSucceeded
           ELSE /\ state.processing_status = "failed"
                /\ state.errors = << << "GOOGLE_API_KEY not found in environment variables" >> >>
                /\ IsNone(state.scorecard_json)
                /\ attempt_log = << >>

\* C1 witness: the key is set, all three model calls failed, and the Scorer
\* still ended with scoring_complete
C1_Witness ==
    /\ ScorerReturned /\ BundleAttached /\ google_api_key
    /\ Len(attempt_log) = 3
    /\ ScorerSucceeded

PipelineTags == {"initialized", "repo_loaded", "scoring_complete", "complete", "failed"}

\* C2 (as stated): every result of process_scorecard carries one of the five
\* pipeline status tags, and a run that did not reach complete returns failed
\* with a non-empty errors list.
C2_Original ==
    ~IsNone(result) =>
        /\ Val(result).processing_status \in PipelineTags
        /\ Val(result).processing_status # "complete" =>
              /\ Val(result).processing_status = "failed"
              /\ ~IsNone(Val(result).errors)
              /\ Len(Val(result).errors[1]) > 0

\* C2 (amended): a result for an empty URL carries input_validation_failed,
\* an error text and no errors list; a result after the workflow raised
\* carries critical_error and an errors list of one string; every other
\* result comes from a graph run and carries complete with an empty errors
\* list, or failed with a non-empty errors list.
C2_ResultStatus ==
    ~IsNone(result) =>
        LET r == Val(result) IN
        IF repo_url.empty
        THEN /\ r.processing_status = "input_validation_failed"
             /\ IsNone(r.errors)
             /\ ~IsNone(r.error)
        ELSE IF Len(started) = 0
        THEN /\ r.processing_status = "critical_error"
             /\ ~IsNone(r.errors)
             /\ Len(Val(r.errors)) = 1
        ELSE /\ r.processing_status \in {"complete", "failed"}
             /\ ~IsNone(r.errors)
             /\ r.processing_status = "failed" <=> Len(Val(r.errors)) > 0

\* C2 witness: a result of a run whose Committer failed
C2_Witness ==
    /\ ~IsNone(result)
    /\ Len(started) = 3
    /\ Val(result).processing_status = "failed"
    /\ Len(Val(Val(result).errors)) > 0

StageOrder == << "repo_loader", "scoring_agent", "commit_agent" >>

\* C3: each stage runs at most once, in the order Loader, Scorer, Committer;
\* the Scorer starts only on status repo_loaded (Loader returned), the
\* Committer only on scoring_complete (Scorer returned); no stage starts
\* while another is running.
C3_StageOrder ==
    /\ Len(started) <= 3
    /\ \A i \in 1..Len(started) : started[i].node = StageOrder[i]
    /\ Len(started) >= 1 => started[1].status = "initialized"
    /\ Len(started) >= 2 => started[2].status = "repo_loaded"
    /\ Len(started) >= 3 => started[3].status = "scoring_complete"
    /\ ~overlap
    /\ Cardinality(running) <= 1
    /\ \A n \in running : n = Last(started).node

\* C3 witness: all three stages have started and the run is over
C3_Witness == Len(started) = 3 /\ pc = "done"

\* the stage that failed by its agent's error: the last one started
FailingStage == Last(started).node

\* C4 (as stated): when the Loader or the Committer fails, the run ends
\* failed, no later stage runs, and the error list holds the failing stage's
\* error string verbatim.
C4_Original ==
    ~IsNone(agent_error) =>
        /\ pc \in {"END", "done"}
        /\ state.processing_status = "failed"
        /\ FailingStage \in {"repo_loader", "commit_agent"}
        /\ state.errors = << Val(agent_error) >>

\* C4 (amended): when the Loader or the Committer fails, the run ends
\* failed, no later stage runs, and exactly one string is appended to the
\* error list: the Loader's status message verbatim, or "Commit error: "
\* followed by the Committer's error message unaltered.
C4_HaltAndRecord ==
    ~IsNone(agent_error) =>
        /\ pc \in {"END", "done"}
        /\ state.processing_status = "failed"
        /\ pc = "done" => Val(result).processing_status = "failed"
        /\ \/ /\ FailingStage = "repo_loader"
              /\ Len(started) = 1
              /\ state.errors = << Val(agent_error) >>
           \/ /\ FailingStage = "commit_agent"
              /\ Len(started) = 3
              /\ state.errors = << << "Commit error: " >> \o Val(agent_error) >>

\* C4 witness: the provider rejected the Committer's write and the run is over
C4_Witness ==
    /\ ~IsNone(agent_error)
    /\ FailingStage = "commit_agent"
    /\ ~IsNone(put_log)
    /\ pc = "done"

\* the outcomes after which the retry loop goes on (or, on the last
\* attempt, gives up)
FailedAttempts == {"empty", "blank", "garbage", "invalid"}

\* C5: analyze_repository always returns a scorecard and never raises; when
\* all 3 attempts failed, or the model call or the build raised, the value
\* returned is the fallback scorecard of the bundle.
C5_AlwaysAScorecard ==
    /\ pc = "model_call" =>
          /\ Len(attempt_log) < max_retries
          /\ \A i \in 1..Len(attempt_log) : attempt_log[i] \in FailedAttempts
    /\ (attempt_log # << >> /\ pc # "model_call") =>
          /\ ~NotDict(state.scorecard_json)
          /\ \A i \in 1..(Len(attempt_log) - 1) : attempt_log[i] \in FailedAttempts
          /\ Last(attempt_log) \in FailedAttempts => Len(attempt_log) = max_retries
          /\ Last(attempt_log) # "valid" =>
                \E now \in 1..MaxTime :
                    Val(state.scorecard_json) = _create_basic_scorecard(Val(state.repo_data), now)
          /\ Len(started) = 2 =>
                state.processing_status = "scoring_complete" /\ state.errors = << >>

\* C5 witness: three attempts failed, the last by structural validation, and
\* the Scorer has returned
C5_Witness ==
    /\ Len(attempt_log) = 3
    /\ attempt_log[1] = "empty" /\ attempt_log[2] = "garbage" /\ attempt_log[3] = "invalid"
    /\ pc = "commit_agent"

\* the write request was sent with a marker (or with none) that was not the
\* file's at the time the provider received it
StaleAtWrite ==
    /\ ~IsNone(put_log)
    /\ ~MarkerCurrent(Val(put_log).met, Val(commit_data))

\* C6: with another writer changing component-score.json, a run issues at
\* most one lookup and at most one write request; a write whose marker (or
\* observed absence) is stale when it arrives is rejected, the run ends
\* failed with no commit attached, and the file stays as the other writer
\* left it.
C6_SingleWriteNoRetry ==
    /\ lookups <= 1
    /\ writes <= 1
    /\ writes = 1 => lookups = 1 /\ ~IsNone(put_log)
    /\ StaleAtWrite =>
          /\ Val(put_log).resp.status_code \notin {200, 201}
          /\ remote_file = Val(put_log).met
          /\ remote_file.author # "pipeline"
          /\ pc \in {"END", "done"}
          /\ state.processing_status = "failed"
          /\ IsNone(state.commit_sha)

\* C6 witness: the lookup read a marker, the other writer then changed the
\* file, and the write arrived with the old marker
C6_Witness ==
    /\ StaleAtWrite
    /\ Val(lookup_log).status_code = 200
    /\ Val(lookup_log).sha # 0
    /\ Val(put_log).met.sha # Val(lookup_log).sha
    /\ Val(put_log).met.author = "other"

\* the lookup's answer carries a stored, non-empty revision marker
LookupFoundMarker ==
    /\ Val(lookup_log).kind = "response"
    /\ Val(lookup_log).status_code = 200
    /\ Val(lookup_log).hasSha
    /\ Val(lookup_log).sha # 0

\* C7: the write request carries no sha member when the lookup found no
\* stored marker, and carries the marker of the lookup's answer, unchanged,
\* when it found one.
C7_MarkerInRequest ==
    ~IsNone(commit_data) =>
        IF LookupFoundMarker
        THEN Val(commit_data).sha = Some(Val(lookup_log).sha)
        ELSE IsNone(Val(commit_data).sha)

\* C7 witness: a write request was sent with the marker the lookup returned,
\* for a file the lookup found at its second revision
C7_Witness ==
    /\ writes = 1
    /\ LookupFoundMarker
    /\ Val(commit_data).sha = << 2 >>

\* C8: for every write response whose status code is not 2xx,
\* commit_scorecard raises with the status code and the body in its
\* message, the Committer ends failed, and neither a commit identifier nor a
\* result string is attached to the state.
C8_RejectedWriteFails ==
    (~IsNone(put_log) /\ Val(put_log).resp.status_code \notin 200..299) =>
        /\ state.processing_status = "failed"
        /\ IsNone(state.commit_sha)
        /\ IsNone(state.commit_result)
        /\ Val(agent_error) =
              << "Commit operation failed: ", "Failed to commit file: ",
                 CodeStr(Val(put_log).resp.status_code), " - ", Val(put_log).resp.body >>
        /\ Len(state.errors) = 1
        /\ \E i \in 1..Len(state.errors[1]) :
              state.errors[1][i] = CodeStr(Val(put_log).resp.status_code)
        /\ \E i \in 1..Len(state.errors[1]) :
              state.errors[1][i] = Val(put_log).resp.body

\* C8 witness: the provider answered the write with 422 and the run is over
C8_Witness ==
    /\ ~IsNone(put_log)
    /\ Val(put_log).resp.status_code = 422
    /\ pc = "done"

\* C9: with GITHUB_TOKEN absent no marker lookup and no write request is
\* ever issued; a run that reaches the Committer ends failed with the
\* constructor's error recorded, and no run ends complete.
C9_NoTokenNoNetwork ==
    ~github_token =>
        /\ lookups = 0
        /\ writes = 0
        /\ IsNone(commit_data)
        /\ state.processing_status # "complete"
        /\ Len(started) = 3 =>
              /\ pc \in {"END", "done"}
              /\ state.processing_status = "failed"
              /\ state.errors =
                    << << "Commit error: ", "GITHUB_TOKEN environment variable is required" >> >>
              /\ pc = "done" => Val(result).processing_status = "failed"

\* C9 witness: the token is absent, the Committer was reached, the run is over
C9_Witness ==
    /\ ~github_token
    /\ Len(started) = 3
    /\ pc = "done"

\* the rubric ids of the four areas, in rubric order
RubricIds == << << 1, 2, 3 >>, << 4, 5, 6 >>, << 7, 8 >>, << 9, 10 >> >>

\* the rubric ids with no entry in the scores given to the assembly
MissingIds == { n \in 1..10 : IdStr(n) \notin DOMAIN asm_in }

\* C10: the assembled scorecard holds the 10 rubric entries exactly once, in
\* rubric order inside their 4 areas, each with its own rubric title,
\* howToScore and scoreChoices; an entry whose id the scores lack has score
\* 50 and details "No analysis available", every other entry the score and
\* details given.
C10_AssemblyComplete ==
    ~IsNone(asm_out) =>
        LET card == Val(asm_out) IN
        /\ Len(card.areaScores) = 4
        /\ \A a \in 1..4 :
              LET area == card.areaScores[a]
                  rubric == scorecard_structure.areas[a]
              IN /\ area.id = rubric.id
                 /\ area.title = rubric.title
                 /\ Len(area.scoreEntries) = Len(RubricIds[a])
                 /\ \A i \in 1..Len(RubricIds[a]) :
                       LET e == area.scoreEntries[i]
                           n == RubricIds[a][i]
                       IN /\ e.id = n
                          /\ e.title = rubric.entries[i].title
                          /\ e.howToScore = rubric.entries[i].howToScore
                          /\ e.scoreChoices = rubric.entries[i].scoreChoices
                          /\ rubric.entries[i].id = n
                          /\ IF n \in MissingIds
                             THEN /\ e.scorePercent = 50
                                  /\ e.details = Text("No analysis available")
                             ELSE /\ e.scorePercent = asm_in[IdStr(n)].score.v
                                  /\ e.details = asm_in[IdStr(n)].details

\* C10 witness: a scorecard assembled from scores that lack 3 of the 10 ids,
\* from three different areas
C10_Witness ==
    /\ ~IsNone(asm_out)
    /\ MissingIds = {2, 5, 10}

\* every area score and the overall score of a scorecard
CardScores(card) ==
    { card.scorePercent } \cup
    { card.areaScores[a].scorePercent : a \in 1..Len(card.areaScores) }

\* C11 (as stated): for every set of entry scores the assembly can receive
\* from a response that passed structural validation, every area score and
\* the overall score of the assembled scorecard lies in 0..100.
C11_Original ==
    (~IsNone(asm_out) /\ _validate_ai_response(EntriesResponse(asm_in)))
        => \A x \in CardScores(Val(asm_out)) : x \in 0..100

\* the status label as the specification tabulates it, by closed intervals
LabelOf(score) ==
    CASE score >= 90 -> "excellent"
      [] score \in 70..89 -> "good"
      [] score \in 50..69 -> "warning"
      [] OTHER -> "error"

\* C12: the status label has closed lower thresholds (90 excellent, 89 good,
\* 70 good, 69 warning, 50 warning, 49 error), and in every assembled
\* scorecard the scoreSuccess of each entry, each area and the overall record
\* is the label of the scorePercent of the same record.
C12_LabelOfScore ==
    /\ _get_score_success(90) = "excellent" /\ _get_score_success(89) = "good"
    /\ _get_score_success(70) = "good" /\ _get_score_success(69) = "warning"
    /\ _get_score_success(50) = "warning" /\ _get_score_success(49) = "error"
    /\ ~IsNone(asm_out) =>
          LET card == Val(asm_out) IN
          /\ card.scoreSuccess = LabelOf(card.scorePercent)
          /\ \A a \in 1..Len(card.areaScores) :
                LET area == card.areaScores[a] IN
                /\ area.scoreSuccess = LabelOf(area.scorePercent)
                /\ \A i \in 1..Len(area.scoreEntries) :
                      area.scoreEntries[i].scoreSuccess =
                          LabelOf(area.scoreEntries[i].scorePercent)

\* the scorePercent and scoreSuccess of rubric entry i of area a
EntryLabel(card, a, i) ==
    << card.areaScores[a].scoreEntries[i].scorePercent,
       card.areaScores[a].scoreEntries[i].scoreSuccess >>

\* C12 witness: a scorecard assembled with entries scored 70, 69, 50, 49, 90
\* and 89, labelled good, warning, warning, error, excellent and good
C12_Witness ==
    /\ ~IsNone(asm_out)
    /\ EntryLabel(Val(asm_out), 2, 1) = << 70, "good" >>
    /\ EntryLabel(Val(asm_out), 2, 2) = << 69, "warning" >>
    /\ EntryLabel(Val(asm_out), 2, 3) = << 50, "warning" >>
    /\ EntryLabel(Val(asm_out), 3, 2) = << 49, "error" >>
    /\ EntryLabel(Val(asm_out), 4, 1) = << 90, "excellent" >>
    /\ EntryLabel(Val(asm_out), 4, 2) = << 89, "good" >>

\* the score of rubric entry n in a scorecard
ScoreAt(card, n) ==
    LET a == CASE n <= 3 -> 1 [] n \in 4..6 -> 2 [] n \in 7..8 -> 3 [] OTHER -> 4
        i == CASE n <= 3 -> n [] n \in 4..6 -> n - 3 [] n \in 7..8 -> n - 6 [] OTHER -> n - 8
    IN card.areaScores[a].scoreEntries[i].scorePercent

\* the fallback table as a function of which categories hold a file
TableScore(present, n) ==
    CASE n = 1 -> IF "documentation" \in present THEN 80 ELSE 20
      [] n = 2 -> 60
      [] n = 3 -> IF "source_code" \in present THEN 70 ELSE 30
      [] n = 4 -> IF "ci_cd" \in present THEN 80 ELSE 30
      [] n = 5 -> IF "build_files" \in present THEN 70 ELSE 40
      [] n = 6 -> IF "config_files" \in present THEN 60 ELSE 30
      [] n = 7 -> 55
      [] n = 8 -> 70
      [] n = 9 -> 40
      [] OTHER -> 50

\* the categories of the bundle of the state that hold at least one file
Present == { c \in Categories : Len(Val(state.repo_data).organized_files[c]) > 0 }

\* analyze_repository returned the fallback scorecard
FallbackReturned ==
    /\ pc # "model_call"
    /\ attempt_log # << >>
    /\ Last(attempt_log) # "valid"

\* the sum of the table values of area a, and the number of its entries
TableSum(present, a) ==
    SumSeq([i \in 1..Len(RubricIds[a]) |-> TableScore(present, RubricIds[a][i])])

\* C13: the entry scores of the fallback scorecard are the fixed table
\* applied to which file categories of the bundle are non-empty (documentation
\* 80 else 20, CI 80 else 30, no build files 40, security 55, secrets 70,
\* coverage 40, quality 50); for a bundle with documentation and without CI
\* and build files, after 3 attempts with no usable response, the scorecard
\* has entry 1 at 80, entry 4 at 30, entry 5 at 40 and an overall score equal
\* to the floor of the mean of the 4 area means of the table values.
C13_FallbackTable ==
    FallbackReturned =>
        LET card == Val(state.scorecard_json) IN
        /\ \A n \in 1..10 : ScoreAt(card, n) = TableScore(Present, n)
        /\ ScoreAt(card, 7) = 55 /\ ScoreAt(card, 8) = 70
        /\ ScoreAt(card, 9) = 40 /\ ScoreAt(card, 10) = 50
        /\ ScoreAt(card, 1) = IF "documentation" \in Present THEN 80 ELSE 20
        /\ ScoreAt(card, 4) = IF "ci_cd" \in Present THEN 80 ELSE 30
        /\ "build_files" \notin Present => ScoreAt(card, 5) = 40
        /\ ( /\ "documentation" \in Present
             /\ "ci_cd" \notin Present /\ "build_files" \notin Present
             /\ Len(attempt_log) = max_retries
             /\ Last(attempt_log) \in FailedAttempts ) =>
              /\ ScoreAt(card, 1) = 80 /\ ScoreAt(card, 4) = 30 /\ ScoreAt(card, 5) = 40
              \* the mean of the area scores (each the floor of its mean)
              /\ card.scorePercent =
                    ( TableSum(Present, 1) \div 3 + TableSum(Present, 2) \div 3
                      + TableSum(Present, 3) \div 2 + TableSum(Present, 4) \div 2 ) \div 4
              \* the mean of the exact area means: sum_a T_a / n_a, over 4
              /\ card.scorePercent =
                    ( 2 * TableSum(Present, 1) + 2 * TableSum(Present, 2)
                      + 3 * TableSum(Present, 3) + 3 * TableSum(Present, 4) ) \div 24

\* C13 witness: the bundle holds a README only, three attempts gave an empty,
\* an unparsable and an invalid response, and the fallback scorecard with
\* overall score 49 was returned
C13_Witness ==
    /\ FallbackReturned
    /\ Present = {"documentation"}
    /\ attempt_log = << "empty", "garbage", "invalid" >>
    /\ ScoreAt(Val(state.scorecard_json), 1) = 80
    /\ Val(state.scorecard_json).scorePercent = 49

\* the function fn was called alone and has returned
Returned(fn) == pc = "returned" /\ call_in.fn = fn

\* C14: _create_basic_scorecard never raises, for any bundle, one with no
\* file in any category and one whose metadata or classification mapping is
\* absent or empty included; it returns a complete scorecard: the 10 rubric
\* entries in their 4 areas with integer scores in 0..100, and the
\* repository name or "unknown-component".
C14_FallbackNeverRaises ==
    Returned("_create_basic_scorecard") =>
        /\ ~IsNone(Val(call_out))
        /\ LET card == Val(Val(call_out))
               b == call_in.arg
           IN /\ Len(card.areaScores) = 4
              /\ \A a \in 1..4 :
                    /\ Len(card.areaScores[a].scoreEntries) = Len(RubricIds[a])
                    /\ card.areaScores[a].scorePercent \in 0..100
                    /\ \A i \in 1..Len(RubricIds[a]) :
                          LET e == card.areaScores[a].scoreEntries[i] IN
                          /\ e.id = RubricIds[a][i]
                          /\ e.scorePercent \in 0..100
                          /\ e.details.t = "str"
              /\ card.scorePercent \in 0..100
              /\ card.entityRef.name =
                    IF "repo_metadata" \in DOMAIN b /\ "name" \in DOMAIN b.repo_metadata
                    THEN b.repo_metadata.name ELSE << "unknown-component" >>

\* C14 witness: the fallback was built for a bundle with neither metadata
\* nor a classification mapping
C14_Witness ==
    /\ Returned("_create_basic_scorecard")
    /\ DOMAIN call_in.arg = {"owner"}
    /\ ~IsNone(Val(call_out))
    /\ Val(Val(call_out)).entityRef.name = << "unknown-component" >>
    /\ ScoreAt(Val(Val(call_out)), 1) = 20

\* a segment without a trailing ".git"
StripGitSuffix(seg) ==
    IF Len(seg) > 0 /\ seg[Len(seg)] = ".git" THEN SubSeq(seg, 1, Len(seg) - 1) ELSE seg

NoSlash(seg) == \A i \in 1..Len(seg) : seg[i] # "/"

\* C15 (as stated): for every URL whose path has at least two segments,
\* parse_github_url returns the first segment as owner and the second
\* segment with only a trailing ".git" removed as repo (an inner ".git"
\* kept), with no slash in either.
C15_Original ==
    (Returned("parse_github_url") /\ Len(call_in.arg.parts) >= 2) =>
        LET r == Val(call_out) IN
        /\ r.owner = Some(call_in.arg.parts[1])
        /\ r.repo = Some(StripGitSuffix(call_in.arg.parts[2]))
        /\ NoSlash(Val(r.owner)) /\ NoSlash(Val(r.repo))

\* the files of a listing whose content fetch succeeded
Decoded(net) == SelectSeq(net.files, LAMBDA f : f.path \notin net.undecoded)

LoadSucceeded(r) ==
    r.repo_data # EmptyDict /\ r.status = << "Repository loaded successfully" >>

LoadFailed(r) ==
    r.repo_data = EmptyDict /\ r.status # << "Repository loaded successfully" >>

\* C16 (as stated): load_repository fails exactly when the URL has fewer
\* than two path segments, or the metadata fetch returns nothing, or the
\* traversal yields zero decoded files, in that order and with no fetch after
\* an earlier failure.
C16_Original ==
    Returned("load_repository") =>
        LET r == Val(call_out)
            url == call_in.arg.url
            net == call_in.arg.net
        IN IF Len(url.parts) < 2
           THEN LoadFailed(r) /\ r.status = << "Invalid GitHub repository URL" >>
                /\ r.fetches = << >>
           ELSE IF ~net.meta
           THEN LoadFailed(r) /\ r.status = << "Failed to fetch repository metadata" >>
                /\ r.fetches = << "metadata" >>
           ELSE IF Len(Decoded(net)) = 0
           THEN LoadFailed(r) /\ r.status = << "No relevant files found in repository" >>
           ELSE LoadSucceeded(r)

\* C16 (amended): load_repository returns an empty bundle and an error
\* message exactly when, in this order, the parsed owner or repository name
\* is missing or empty (fewer than two path segments, or an empty segment
\* once ".git" is removed), no fetch made; or the metadata fetch returns
\* nothing, no further fetch made; or the traversal raises, the message
\* being "Error loading repository: " and the exception text; or the
\* traversal yields zero decoded files.  A failed language fetch or a failed
\* decode of some file alone never makes loading fail.
C16_LoadFailures ==
    Returned("load_repository") =>
        LET r == Val(call_out)
            url == call_in.arg.url
            net == call_in.arg.net
            unnamed == \/ Len(url.parts) < 2
                       \/ Len(url.parts[1]) = 0
                       \/ \A i \in 1..Len(url.parts[2]) : url.parts[2][i] = ".git"
        IN /\ LoadFailed(r) \/ LoadSucceeded(r)
           /\ LoadFailed(r) <=>
                 (unnamed \/ ~net.meta \/ net.listing = "malformed" \/ Len(Decoded(net)) = 0)
           /\ unnamed =>
                 r.status = << "Invalid GitHub repository URL" >> /\ r.fetches = << >>
           /\ (~unnamed /\ ~net.meta) =>
                 /\ r.status = << "Failed to fetch repository metadata" >>
                 /\ r.fetches = << "metadata" >>
           /\ (~unnamed /\ net.meta /\ net.listing = "malformed") =>
                 r.status[1] = "Error loading repository: "
           /\ (~unnamed /\ net.meta /\ net.listing = "ok" /\ Len(Decoded(net)) = 0) =>
                 r.status = << "No relevant files found in repository" >>
           /\ LoadSucceeded(r) =>
                 /\ r.repo_data.files_data = Decoded(net)
                 /\ r.repo_data.languages = IF net.langs THEN << "Python" >> ELSE << >>

\* C16 witness: a load succeeded although the language fetch failed and the
\* content of one of the files listed could not be fetched
C16_Witness ==
    /\ Returned("load_repository")
    /\ LoadSucceeded(Val(call_out))
    /\ ~call_in.arg.net.langs
    /\ Len(Decoded(call_in.arg.net)) < Len(call_in.arg.net.files)
    /\ Val(call_out).repo_data.languages = << >>

\* how many times f occurs in files
RECURSIVE Count(_, _)
Count(files, f) ==
    IF Len(files) = 0 THEN 0
    ELSE (IF Head(files) = f THEN 1 ELSE 0) + Count(Tail(files), f)

\* how many times f occurs in all the category lists of organized together
RECURSIVE CountIn(_, _, _)
CountIn(organized, cats, f) ==
    IF cats = {} THEN 0
    ELSE LET c == CHOOSE x \in cats : TRUE
         IN Count(organized[c], f) + CountIn(organized, cats \ {c}, f)

RECURSIVE SizeOf(_, _)
SizeOf(organized, cats) ==
    IF cats = {} THEN 0
    ELSE LET c == CHOOSE x \in cats : TRUE
         IN Len(organized[c]) + SizeOf(organized, cats \ {c})

\* C17: in the bundle of a successful load the six category lists partition
\* the flat file list: each file of the flat list is in exactly one category
\* list, once; no category list holds a file that is not in the flat list;
\* the sizes of the category lists sum to total_files.
C17_CategoriesPartition ==
    (Returned("load_repository") /\ LoadSucceeded(Val(call_out))) =>
        LET b == Val(call_out).repo_data IN
        /\ DOMAIN b.organized_files = Categories
        /\ b.total_files = Len(b.files_data)
        /\ \A i \in 1..Len(b.files_data) :
              /\ Count(b.files_data, b.files_data[i]) = 1
              /\ CountIn(b.organized_files, Categories, b.files_data[i]) = 1
        /\ \A c \in Categories : \A i \in 1..Len(b.organized_files[c]) :
              Count(b.files_data, b.organized_files[c][i]) = 1
        /\ SizeOf(b.organized_files, Categories) = b.total_files

\* C17 witness: a bundle of six files, one in each category, among them
\* package.json, which the configuration rule and the build-file rule both
\* match
C17_Witness ==
    /\ Returned("load_repository") /\ LoadSucceeded(Val(call_out))
    /\ Val(call_out).repo_data.total_files = 6
    /\ \A c \in Categories : Len(Val(call_out).repo_data.organized_files[c]) = 1
    /\ Val(call_out).repo_data.organized_files["config_files"] = << F_package >>

\* the status of a state, "" when it has none; whether it has errors
StatusOf(st) == IF "processing_status" \in DOMAIN st THEN st.processing_status ELSE ""
HasErrors(st) == "errors" \in DOMAIN st /\ st.errors # << >>

\* C18: check_success returns termination whenever the status is failed or
\* the error list is non-empty, even with a success status; otherwise
\* repo_loaded goes to the Scorer, scoring_complete to the Committer, and
\* complete or any other status to termination.
C18_Routing ==
    Returned("check_success") =>
        LET st == call_in.arg
            to == Val(call_out)
        IN /\ (StatusOf(st) = "failed" \/ HasErrors(st)) => to = "END"
           /\ (StatusOf(st) # "failed" /\ ~HasErrors(st)) =>
                 /\ StatusOf(st) = "repo_loaded" => to = "scoring_agent"
                 /\ StatusOf(st) = "scoring_complete" => to = "commit_agent"
                 /\ StatusOf(st) \notin {"repo_loaded", "scoring_complete"} => to = "END"

\* C18 witness: a state with a success status and a non-empty error list
\* was routed to termination
C18_Witness ==
    /\ Returned("check_success")
    /\ StatusOf(call_in.arg) = "scoring_complete"
    /\ HasErrors(call_in.arg)
    /\ Val(call_out) = "END"

\* C19: one call of analyze_repository invokes the model at most 3 times,
\* one call after the other while the Scorer alone is running; a further
\* call follows only an empty response, a response empty or unparsable after
\* cleanup, or one failing structural validation; the loop ends with the
\* first response that parses and validates (and with a call that raises),
\* and after a failed attempt only when it was the third.
C19_BoundedRetry ==
    /\ Len(attempt_log) <= max_retries
    /\ \A i \in 1..Len(attempt_log) :
          i < Len(attempt_log) => attempt_log[i] \in FailedAttempts
    /\ pc = "model_call" =>
          /\ attempt = Len(attempt_log)
          /\ attempt < max_retries
          /\ running = {"scoring_agent"}
          /\ Len(attempt_log) > 0 => Last(attempt_log) \in FailedAttempts
    /\ (pc # "model_call" /\ attempt_log # << >>) =>
          /\ "scoring_agent" \notin running
          /\ Last(attempt_log) \in FailedAttempts => Len(attempt_log) = max_retries
          /\ Len(attempt_log) < max_retries =>
                Last(attempt_log) \in {"valid", "valid_build_raises", "raise"}
    /\ ~overlap

\* C19 witness: the second response parsed and validated after a first that
\* failed validation, and the loop ended with no third call
C19_Witness ==
    /\ attempt_log = << "invalid", "valid" >>
    /\ pc = "commit_agent"

\* the shape the specification requires of a parsed response
WellFormed(response_data) ==
    /\ response_data.isDict
    /\ response_data.hasEntries
    /\ response_data.entriesIsDict
    /\ DOMAIN response_data.entries # {}
    /\ \A k \in DOMAIN response_data.entries :
          LET e == response_data.entries[k] IN
          /\ e.isDict
          /\ e.hasScore /\ IsNumber(e.score)
          /\ e.hasDetails /\ e.details.t = "str"

\* C20 (as stated): _validate_ai_response accepts a parsed response exactly
\* when it is an object with a non-empty entries mapping in which every
\* value is an object with a numeric score and a details value that is a
\* string; a response with a details value that is not a string is rejected.
C20_Original ==
    Returned("_validate_ai_response") =>
        (Val(call_out) <=> WellFormed(call_in.arg))

\* the sum of f over the elements of S
RECURSIVE SumOver(_, _)
SumOver(f, S) ==
    IF S = {} THEN 0
    ELSE LET x == CHOOSE y \in S : TRUE IN f[x] + SumOver(f, S \ {x})

\* the score the assembly uses for rubric entry n
GivenScore(n) ==
    IF IdStr(n) \in DOMAIN asm_in THEN asm_in[IdStr(n)].score.v ELSE 50

\* the scores given for the 10 rubric entries are integers in 0..100
ScoresInRange == \A n \in 1..10 : GivenScore(n) \in 0..100

\* the sum of the scores given for the entries of area a
AreaSum(a) ==
    SumOver([n \in 1..10 |-> GivenScore(n)], { RubricIds[a][i] : i \in 1..Len(RubricIds[a]) })

\* C21: for integer entry scores in 0..100, each area's scorePercent is the
\* floor of the sum of its entries' scores over their number, and the
\* overall scorePercent is the floor of the sum of the 4 area scorePercent
\* values over 4: the mean of the floored area scores, not of all entries.
C21_FlooredMeans ==
    (~IsNone(asm_out) /\ ScoresInRange) =>
        LET card == Val(asm_out) IN
        /\ \A a \in 1..4 :
              card.areaScores[a].scorePercent = AreaSum(a) \div Len(RubricIds[a])
        /\ card.scorePercent =
              ( card.areaScores[1].scorePercent + card.areaScores[2].scorePercent
                + card.areaScores[3].scorePercent + card.areaScores[4].scorePercent ) \div 4

\* C21 witness: a scorecard whose area means 78.33, 75, 72.5 and 55 are
\* floored to 78, 75, 72, 55 and whose overall score is 70, while the floor
\* of the mean of its ten entries is 71
C21_Witness ==
    /\ ~IsNone(asm_out) /\ ScoresInRange
    /\ Val(asm_out).areaScores[1].scorePercent = 78
    /\ Val(asm_out).areaScores[3].scorePercent = 72
    /\ Val(asm_out).scorePercent = 70
    /\ (AreaSum(1) + AreaSum(2) + AreaSum(3) + AreaSum(4)) \div 10 = 71

\* the rules of the classification, each on its own, in the order of the
\* chain; the last one matches every file
RuleMatches(f) ==
    << f.extension \in {".py", ".js", ".ts", ".jsx", ".tsx", ".java", ".cpp", ".c",
                        ".cs", ".go", ".rb", ".php", ".swift", ".kt", ".rs", ".scala"},
       f.extension \in {".json", ".yml", ".yaml", ".xml", ".toml", ".ini", ".conf"}
           \/ Lower(f.name) \in {"dockerfile", "makefile"},
       f.extension \in {".md", ".txt", ".rst"} \/ ContainsReadme(Lower(f.name)),
       Lower(f.name) \in {"package.json", "requirements.txt", "pom.xml",
                          "build.gradle", "setup.py", "cargo.toml"},
       IsCiPath(Lower(f.path), Lower(f.name)),
       TRUE >>

RuleCategory ==
    << "source_code", "config_files", "documentation", "build_files", "ci_cd", "other" >>

\* the first rule that matches f
FirstMatch(f) == CHOOSE i \in 1..6 : RuleMatches(f)[i] /\ \A j \in 1..(i - 1) : ~RuleMatches(f)[j]

\* an extension rule and a later name or path rule both match f
ExtensionAndLaterRule(f) ==
    /\ FirstMatch(f) \in 1..3
    /\ f.extension # ""
    /\ \E j \in (FirstMatch(f) + 1)..5 : RuleMatches(f)[j]

\* C22: _organize_files_by_type puts each file in the category of the first
\* matching rule in the order source-code extension, config extension, doc
\* extension or "readme" in the name, build filename, CI path marker, else
\* other; when an extension rule and a later name or path rule both match,
\* the extension rule decides.
C22_FirstRuleWins ==
    (Returned("load_repository") /\ LoadSucceeded(Val(call_out))) =>
        LET b == Val(call_out).repo_data IN
        \A c \in Categories : \A i \in 1..Len(b.organized_files[c]) :
            c = RuleCategory[FirstMatch(b.organized_files[c][i])]

\* C22 witness: setup.py (source extension, build filename), requirements.txt
\* (doc extension, build filename), a workflow file (config extension, CI
\* path) and k8s/jenkins.md (doc extension, CI path) were classified by their
\* extensions
C22_Witness ==
    /\ Returned("load_repository") /\ LoadSucceeded(Val(call_out))
    /\ \A i \in 1..4 : ExtensionAndLaterRule(OverlapFiles[i])
    /\ Val(call_out).repo_data.organized_files["source_code"] = << OverlapFiles[1] >>
    /\ Val(call_out).repo_data.organized_files["documentation"] =
          << OverlapFiles[2], OverlapFiles[4] >>
    /\ Val(call_out).repo_data.organized_files["config_files"] =
          << OverlapFiles[3], OverlapFiles[5] >>
    /\ Val(call_out).repo_data.organized_files["build_files"] = << >>
    /\ Val(call_out).repo_data.organized_files["ci_cd"] = << >>

\* a node of the graph has been called alone and has returned
NodeFns == {"repo_loader_node", "scoring_agent_node", "commit_agent_node"}

\* the fields the stage fn attaches when it succeeds
Produces(fn) ==
    CASE fn = "repo_loader_node" -> {"repo_data"}
      [] fn = "scoring_agent_node" -> {"scorecard_json"}
      [] fn = "commit_agent_node" -> {"commit_result", "commit_sha"}

\* q begins with p
IsPrefix(p, q) == Len(p) <= Len(q) /\ SubSeq(q, 1, Len(p)) = p

\* C23: the record a stage node returns has every field the stage does not
\* produce unchanged (on failure: every field but the status and the error
\* list); its error list has the received one as a prefix, one string longer
\* when the stage failed and equal when it succeeded.
C23_FrameEffect ==
    (pc = "returned" /\ call_in.fn \in NodeFns) =>
        LET st == call_in.arg.st
            out == Val(call_out)
            failed == out.processing_status = "failed"
        IN /\ DOMAIN out = DOMAIN st
           /\ IsPrefix(st.errors, out.errors)
           /\ Len(out.errors) = Len(st.errors) + (IF failed THEN 1 ELSE 0)
           /\ \A f \in DOMAIN st \ {"processing_status", "errors"} :
                 (failed \/ f \notin Produces(call_in.fn)) => out[f] = st[f]
           /\ ~failed => /\ \A f \in Produces(call_in.fn) : ~IsNone(out[f])
                         /\ out.processing_status \in
                                {"repo_loaded", "scoring_complete", "complete"}

\* C23 witness: the scoring node, given a state that already carries an
\* error string and a commit identifier, failed: it appended one string and
\* left the rest
C23_Witness ==
    /\ Returned("scoring_agent_node")
    /\ Len(call_in.arg.st.errors) = 1
    /\ ~IsNone(call_in.arg.st.commit_sha)
    /\ Val(call_out).processing_status = "failed"
    /\ Len(Val(call_out).errors) = 2
    /\ Val(call_out).errors[1] = call_in.arg.st.errors[1]
    /\ Val(call_out).commit_sha = call_in.arg.st.commit_sha

\* the commit node, given a state that already carries an error string,
\* succeeded: the error list came back as it was
C23_WitnessSuccess ==
    /\ Returned("commit_agent_node")
    /\ Len(call_in.arg.st.errors) = 1
    /\ Val(call_out).processing_status = "complete"
    /\ Val(call_out).errors = call_in.arg.st.errors

\* the names of the path are all outside the skip set
NoSkippedName(path) == \A i \in 1..Len(path) : path[i] \notin skip_dirs

\* the file item of directory path was collected
Collected(path, item) ==
    \E i \in 1..Len(traversed_files) : traversed_files[i] = Append(path, item.name)

\* the traversal went through the whole of every directory it listed
WentThrough ==
    /\ [path |-> << >>, node |-> "root"] \in listed
    /\ \A d \in listed : \A i \in 1..Len(get_repo_contents(d.node)) :
         LET item == get_repo_contents(d.node)[i] IN
         /\ (item.type = "file" /\ is_relevant_file(item.name)
              /\ item.name \notin content_api.undecoded) => Collected(d.path, item)
         /\ (item.type = "dir" /\ item.name \notin skip_dirs /\ Len(d.path) + 1 < 10)
               => [path |-> Append(d.path, item.name), node |-> item.node] \in listed

TraversalSafe ==
    /\ \A d \in listed : Len(d.path) + 1 <= 10 /\ NoSkippedName(d.path)
    /\ \A i \in 1..Len(traversed_files) :
         Last(traversed_files[i]) \notin content_api.undecoded
    /\ pc = "traversed" => WentThrough

\* C24: traverse_repository, started at the root with the default bound,
\* returns for every tree, cyclic ones included; it requests the contents of
\* directories on at most 10 nested levels (the root is the first) and of no
\* directory with a name of the skip set; a file whose content fetch fails is
\* left out and the files after it are still collected.
C24_TraversalTerminates == <>(pc = "traversed") /\ []TraversalSafe

\* C24 witness: the traversal of the directory that contains itself has
\* returned; it listed the 10th level, left out broken.py and collected the
\* main.py that follows it there
C24_Witness ==
    /\ pc = "traversed"
    /\ content_api = [tree |-> "cycle", unlistable |-> {}, undecoded |-> {"broken.py"}]
    /\ \E d \in listed :
         /\ Len(d.path) = 9
         /\ \E i \in 1..Len(traversed_files) : traversed_files[i] = Append(d.path, "main.py")
         /\ ~\E i \in 1..Len(traversed_files) : traversed_files[i] = Append(d.path, "broken.py")
         /\ [path |-> Append(d.path, "node_modules"), node |-> "L"] \notin listed

GraphRunning == pc \in {"repo_loader", "scoring_agent", "commit_agent"}

\* C25: every run of the graph started from the initial state reaches END,
\* provided every stage call returns, and at END the status is complete or
\* failed: never initialized, repo_loaded or scoring_complete.
C25_GraphRunEnds ==
    /\ (GraphRunning ~> pc = "END")
    /\ [](pc \in {"END", "done"} /\ Len(started) > 0
            => state.processing_status \in {"complete", "failed"})
    /\ [](pc # "invalid_route")

\* C25 witness: the graph ran its three nodes and is at END, complete
C25_Witness ==
    /\ pc = "END"
    /\ Len(started) = 3
    /\ state.processing_status = "complete"

\* C26: in every state of a run, status complete implies that a bundle, a
\* scorecard, a commit identifier and a commit result string are attached
\* and the error list is empty; the error list is non-empty only when the
\* status is failed.
C26_CompleteMeansAll ==
    /\ state.processing_status = "complete" =>
          /\ ~NotDict(state.repo_data)
          /\ ~NotDict(state.scorecard_json)
          /\ ~IsNone(state.commit_sha) /\ Val(state.commit_sha) > 0
          /\ ~NotStr(state.commit_result)
          /\ state.errors = << >>
    /\ Len(state.errors) > 0 => state.processing_status = "failed"

\* C26 witness: a run is complete with the marker of the revision its write
\* created
C26_Witness ==
    /\ state.processing_status = "complete"
    /\ writes = 1
    /\ state.commit_sha = Some(remote_file.sha)
    /\ state.commit_result = Some(<< "Scorecard committed successfully" >>)

\* the scorecard attached is the fallback for the bundle attached
FallbackAttached ==
    /\ ~NotDict(state.repo_data)
    /\ ~IsNone(state.scorecard_json)
    /\ \E now \in 1..MaxTime :
         Val(state.scorecard_json) = _create_basic_scorecard(Val(state.repo_data), now)

\* C28: when the model call raises on an attempt, analyze_repository makes
\* no further attempt and returns the fallback scorecard: the raising
\* attempt is the last of the log, so the number of model invocations is its
\* index.
C28_RaiseEndsLoop ==
    \A i \in 1..Len(attempt_log) :
        attempt_log[i] = "raise" =>
            /\ i = Len(attempt_log)
            /\ pc # "model_call"
            /\ FallbackAttached

\* C28 witness: the second call raised after an empty first answer; the node
\* returned the fallback after two invocations
C28_Witness ==
    /\ attempt_log = << "empty", "raise" >>
    /\ pc = "commit_agent"
    /\ FallbackAttached

\* the lookup gave no marker: the file is absent, the request failed, or
\* the answer holds no sha or an empty one
LookupNoMarker ==
    \/ Val(lookup_log).kind = "exception"
    \/ Val(lookup_log).status_code # 200
    \/ ~Val(lookup_log).hasSha
    \/ Val(lookup_log).sha = 0

\* C29: whenever the lookup gives no marker (404, another status code, an
\* exception, a missing or empty sha), _get_file_sha gives a falsy value and
\* commit_scorecard goes on to the write, whose request has no sha member.
C29_NoMarkerStillWrites ==
    (~IsNone(lookup_log) /\ LookupNoMarker) =>
        /\ ~Truthy(_get_file_sha(Val(lookup_log)))
        /\ ~IsNone(commit_data)
        /\ IsNone(Val(commit_data).sha)
        /\ (pc = "commit_put" /\ writes = 0) \/ (writes = 1 /\ ~IsNone(put_log))

\* C29 witness: the file existed from the start, the lookup was answered
\* 500, and the write was issued without a sha member
C29_Witness ==
    /\ ~IsNone(lookup_log)
    /\ Val(lookup_log).status_code = 500
    /\ other_writes = 0
    /\ ~IsNone(put_log)
    /\ Val(put_log).met.exists
    /\ writes = 1
    /\ IsNone(Val(commit_data).sha)

====
